---- MODULE Spec2Model ----
(***************************************************************************)
(* PillPal: dose-occurrence materialization of the patient dashboard, the  *)
(* dose-log table behind it, and the caregiver dashboard's compliance      *)
(* figures.  Time is in milliseconds of the local wall clock; instant 0 is *)
(* a Sunday 00:00, so that (t \div DayMs) % 7 is Date.getDay().            *)
(***************************************************************************)
EXTENDS Integers, Sequences, FiniteSets, TLC

VARIABLES
    now,                  \* the wall clock read by new Date()
    medications,          \* table medications, in creation order
    schedules,            \* table schedules, in creation order
    dose_logs,            \* table dose_logs, in creation order; a row's id is its index
    caregiver_connections,\* table caregiver_connections
    alerts,               \* table alerts
    pass,                 \* the loadData invocations in flight, one per slot
    medicationsState,     \* PatientDashboard state `medications`, per tab
    upcomingDoses,        \* PatientDashboard state `upcomingDoses`, per tab
    loading,              \* PatientDashboard state `loading`, per tab
    patients,             \* CaregiverDashboard state `patients`, per caregiver
    response,             \* what the persistence layer answered to the last direct request
    caregivers,           \* PatientDashboard state `caregivers`, per tab
    caregiverError,       \* PatientDashboard state `caregiverError`, per tab
    addCaregiver,         \* AddCaregiverModal: shown or not, its `email` and `error`, per tab
    user_article_progress,\* table user_article_progress
    articles,             \* HealthEducation state `articles` (read and bookmark marks), per tab
    alertsState           \* CaregiverDashboard state `alerts`, per caregiver

vars == <<now, medications, schedules, dose_logs, caregiver_connections, alerts,
          pass, medicationsState, upcomingDoses, loading, patients,
          response, caregivers, caregiverError, addCaregiver,
          user_article_progress, articles, alertsState>>

tables == <<medications, schedules, caregiver_connections, alerts>>
patientViews == <<medicationsState, upcomingDoses, loading>>
caregiverViews == <<caregivers, caregiverError, addCaregiver, alertsState>>
education == <<user_article_progress, articles>>
otherState == <<response, caregiverViews, education>>

----------------------------------------------------------------------------
(* Units of the wall clock *)
MinuteMs == 60 * 1000
HourMs == 60 * MinuteMs
HalfHourMs == 30 * MinuteMs
DayMs == 24 * HourMs

(* Program constants *)
LookupWindowMs == 60000
AlertsLimit == 10
ImminentMs == 3600000
UpcomingLimit == 5

(* Bounds of the model *)
MaxLogs == 2
LastHalfHour == 17
LastDay == 6
MaxDayLogs == 40
MaxSchedules == 7
MaxConnectionId == 2
LastHour == 23
MaxMedications == 4

NULL == 0 - 1

Tabs == {"tabA", "tabB"}
Passes == {1, 2}
Caregivers == {"cg1"}

\* Both tabs are sessions of the same patient (two open browser tabs).
TabUser == [t \in Tabs |-> "pat1"]

\* Friday 07:00, one hour before the Friday dose
StartNow == 5 * DayMs + 7 * HourMs

Statuses == {"pending", "taken", "missed", "skipped"}

NoLog == [id |-> 0, schedule_id |-> "none", scheduled_time |-> NULL,
          taken_at |-> NULL, status |-> "none"]

----------------------------------------------------------------------------
(* Seed rows: what Add Medication and Add Caregiver have stored. *)
SeedMedications ==
    << [id |-> "med1", patient_id |-> "pat1", active |-> TRUE],
       [id |-> "med2", patient_id |-> "pat1", active |-> FALSE],
       [id |-> "med3", patient_id |-> "pat2", active |-> TRUE] >>

SeedSchedules ==
    << [id |-> "sch1", medication_id |-> "med1", time |-> <<8, 0, 0>>,
        days_of_week |-> {1, 2, 3, 4, 5}, active |-> TRUE],
       [id |-> "sch2", medication_id |-> "med1", time |-> <<7, 30, 0>>,
        days_of_week |-> {0, 6}, active |-> TRUE],
       [id |-> "sch3", medication_id |-> "med1", time |-> <<7, 30, 0>>,
        days_of_week |-> {}, active |-> TRUE],
       [id |-> "sch4", medication_id |-> "med1", time |-> <<7, 0, 0>>,
        days_of_week |-> {0, 1, 2, 3, 4, 5, 6}, active |-> FALSE],
       [id |-> "sch5", medication_id |-> "med2", time |-> <<7, 0, 0>>,
        days_of_week |-> {0, 1, 2, 3, 4, 5, 6}, active |-> TRUE],
       [id |-> "sch6", medication_id |-> "med3", time |-> <<7, 30, 0>>,
        days_of_week |-> {0, 1, 2, 3, 4, 5, 6}, active |-> TRUE] >>

SeedConnections ==
    << [id |-> 1, patient_id |-> "pat1", caregiver_id |-> "cg1", notify_missed_doses |-> TRUE],
       [id |-> 2, patient_id |-> "pat2", caregiver_id |-> "cg1", notify_missed_doses |-> TRUE] >>

\* The accounts that have signed up; an e-mail address is kept as its letters
\* (`name`), whether some are capitals and whether blanks surround it.
Address(name) == [name |-> name, caps |-> FALSE, blanks |-> FALSE]

Profiles ==
    << [id |-> "pat1", email |-> Address("pat1"), role |-> "patient"],
       [id |-> "pat2", email |-> Address("pat2"), role |-> "patient"],
       [id |-> "cg1", email |-> Address("cg1"), role |-> "caregiver"] >>

----------------------------------------------------------------------------
(* Sequence helpers *)
Range(s) == {s[i] : i \in DOMAIN s}

RECURSIVE Reverse(_)
Reverse(s) == IF s = <<>> THEN <<>> ELSE Append(Reverse(Tail(s)), Head(s))

RECURSIVE Concat(_)
Concat(ss) == IF ss = <<>> THEN <<>> ELSE Head(ss) \o Concat(Tail(ss))

Take(s, n) == SubSeq(s, 1, IF Len(s) < n THEN Len(s) ELSE n)

----------------------------------------------------------------------------
(* Date arithmetic *)
\* Date.getDay()
GetDay(t) == (t \div DayMs) % 7

\* new Date(now) followed by setHours(parseInt(hours), parseInt(minutes), 0, 0):
\* the date of `t` with the schedule's hour and minute; seconds are dropped.
ScheduledTime(t, time) == (t - (t % DayMs)) + time[1] * HourMs + time[2] * MinuteMs

\* today.setHours(0, 0, 0, 0)
StartOfDay(t) == t - (t % DayMs)

----------------------------------------------------------------------------
(* Row-level security policies of the schema *)
Connected(uid, patient) ==
    \E c \in Range(caregiver_connections) :
        c.patient_id = patient /\ c.caregiver_id = uid

\* "Patients can view own medications", "Caregivers can view connected patients medications"
CanViewMedication(uid, m) == m.patient_id = uid \/ Connected(uid, m.patient_id)

\* "Users can view schedules for accessible medications"
CanViewSchedule(uid, s) ==
    \E m \in Range(medications) : m.id = s.medication_id /\ CanViewMedication(uid, m)

\* "Users can view dose logs for accessible schedules"
CanViewDoseLog(uid, row) ==
    \E s \in Range(schedules) : s.id = row.schedule_id /\ CanViewSchedule(uid, s)

CanInsertDoseLogOnce(uid, row) ==
    \A r \in Range(dose_logs) :
        ~(r.schedule_id = row.schedule_id /\ r.scheduled_time = row.scheduled_time)

\* "System can create dose logs": WITH CHECK (true)
CanInsertDoseLog(uid, row) == TRUE

\* "Patients can update own dose logs"
CanUpdateDoseLog(uid, row) ==
    \E s \in Range(schedules) : \E m \in Range(medications) :
        s.id = row.schedule_id /\ m.id = s.medication_id /\ m.patient_id = uid

\* The patient a dose-log row belongs to (schedules!inner(medications!inner(patient_id)))
PatientOfDoseLog(row) ==
    LET s == CHOOSE x \in Range(schedules) : x.id = row.schedule_id
        m == CHOOSE x \in Range(medications) : x.id = s.medication_id
    IN  m.patient_id

----------------------------------------------------------------------------
(* Queries of the patient dashboard *)

\* from('medications').select('*, schedules(*)').eq('active', true)
\*   .order('created_at', { ascending: false })
ListActiveMedications(uid) ==
    LET visible(m) == m.active /\ CanViewMedication(uid, m)
        nested(m) == LET mine(s) == s.medication_id = m.id /\ CanViewSchedule(uid, s)
                     IN  SelectSeq(schedules, mine)
        rows == Reverse(SelectSeq(medications, visible))
    IN  [i \in DOMAIN rows |->
            [id |-> rows[i].id, patient_id |-> rows[i].patient_id,
             active |-> rows[i].active, schedules |-> nested(rows[i])]]

SchedulesDueAnyDay(meds, today) ==
    LET due(s) == s.active
        perMed == [i \in DOMAIN meds |->
                      LET ss == SelectSeq(meds[i].schedules, due)
                      IN  [j \in DOMAIN ss |-> [medication |-> meds[i].id, schedule |-> ss[j]]]]
    IN  Concat(perMed)

SchedulesDueInactiveToo(meds, today) ==
    LET due(s) == today \in s.days_of_week
        perMed == [i \in DOMAIN meds |->
                      LET ss == SelectSeq(meds[i].schedules, due)
                      IN  [j \in DOMAIN ss |-> [medication |-> meds[i].id, schedule |-> ss[j]]]]
    IN  Concat(perMed)

\* The loop head of generateUpcomingDoses: the schedules a pass awaits a lookup for,
\* in iteration order; inactive schedules are filtered, other weekdays `continue`.
SchedulesDueToday(meds, today) ==
    LET due(s) == s.active /\ today \in s.days_of_week
        perMed == [i \in DOMAIN meds |->
                      LET ss == SelectSeq(meds[i].schedules, due)
                      IN  [j \in DOMAIN ss |-> [medication |-> meds[i].id, schedule |-> ss[j]]]]
    IN  Concat(perMed)

MatchingDoseLogsAfter(uid, schedule_id, t) ==
    {i \in DOMAIN dose_logs :
        /\ dose_logs[i].schedule_id = schedule_id
        /\ dose_logs[i].scheduled_time > t
        /\ dose_logs[i].scheduled_time < t + LookupWindowMs
        /\ CanViewDoseLog(uid, dose_logs[i])}

\* .eq('schedule_id', id).gte('scheduled_time', t).lt('scheduled_time', t + 60000)
MatchingDoseLogs(uid, schedule_id, t) ==
    {i \in DOMAIN dose_logs :
        /\ dose_logs[i].schedule_id = schedule_id
        /\ dose_logs[i].scheduled_time >= t
        /\ dose_logs[i].scheduled_time < t + LookupWindowMs
        /\ CanViewDoseLog(uid, dose_logs[i])}

\* .maybeSingle(): the row when exactly one matches; no data when none matches, and
\* no data (with an error the caller does not read) when several match.
FindDoseLog(uid, schedule_id, t) ==
    LET hits == MatchingDoseLogs(uid, schedule_id, t)
    IN  IF Cardinality(hits) = 1 THEN dose_logs[CHOOSE i \in hits : TRUE] ELSE NoLog

ImminentOnlyWhenDue(t, passNow) == t - passNow <= 0

ImminentNearNow(t, passNow) == t - passNow < ImminentMs /\ passNow - t < ImminentMs

ImminentInclusive(t, passNow) == t - passNow <= ImminentMs

\* scheduledTime.getTime() - now.getTime() < 3600000
Imminent(t, passNow) == t - passNow < ImminentMs

\* insert({ schedule_id, scheduled_time, status: 'pending' }); taken_at defaults to NULL
\* gen_random_uuid() is an id no row has: here the number after the largest in use.
NewDoseLog(schedule_id, t) ==
    [id |-> 1 + Cardinality(UNION {1..r.id : r \in Range(dose_logs)}), schedule_id |-> schedule_id, scheduled_time |-> t,
     taken_at |-> NULL, status |-> "pending"]

SortDosesNot(ds) == ds

\* doses.sort((a, b) => a.scheduledTime - b.scheduledTime), a stable sort
RECURSIVE SortDoses(_)
SortDoses(ds) ==
    IF ds = <<>> THEN <<>>
    ELSE LET rest == SortDoses(SubSeq(ds, 1, Len(ds) - 1))
             d == ds[Len(ds)]
             before(x) == x.scheduledTime <= d.scheduledTime
             after(x) == x.scheduledTime > d.scheduledTime
         IN  SelectSeq(rest, before) \o <<d>> \o SelectSeq(rest, after)

\* dose.doseLog?.status ?? 'pending'
DisplayStatus(dose) == IF dose.doseLog = NoLog THEN "pending" ELSE dose.doseLog.status

ExposedDosesPendingFirst(ds) ==
    LET open(d) == DisplayStatus(d) = "pending"
        settled(d) == DisplayStatus(d) # "pending"
    IN  Take(SelectSeq(SortDoses(ds), open) \o SelectSeq(SortDoses(ds), settled), UpcomingLimit)

\* setUpcomingDoses(doses.slice(0, 5)) after the sort
ExposedDoses(ds) == Take(SortDoses(ds), UpcomingLimit)

----------------------------------------------------------------------------
(* The loadData invocations (passes).  A pass is the chain of awaits         *)
(*   list medications -> (lookup -> insert?)* -> setUpcomingDoses;           *)
(* each action below is one persistence request together with the           *)
(* synchronous code that runs when its response arrives.  `ok` is whether   *)
(* the persistence layer answered the request.                              *)
IdlePass == [pc |-> "idle", tab |-> "none", now |-> NULL, todo |-> <<>>, doses |-> <<>>]

FreeSlot(p) ==
    /\ pass[p].pc = "idle"
    /\ \A q \in Passes : q < p => pass[q].pc # "idle"

\* loadData() is entered: by the mount effect, by a tick of
\* setInterval(loadData, 60000), or as onSuccess of Add Medication.
StartLoadData(p, t) == [pass EXCEPT ![p] = [IdlePass EXCEPT !.pc = "list", !.tab = t]]

LoadData(t) ==
    /\ \E p \in Passes : FreeSlot(p) /\ pass' = StartLoadData(p, t)
    /\ UNCHANGED <<now, tables, otherState, dose_logs, patientViews, patients>>

\* The end of generateUpcomingDoses, or its next loop iteration.
Continue(p, doses) ==
    LET rest == Tail(pass[p].todo)
        t == pass[p].tab
    IN  IF rest = <<>>
        THEN /\ pass' = [pass EXCEPT ![p] = IdlePass]
             /\ upcomingDoses' = [upcomingDoses EXCEPT ![t] = ExposedDoses(doses)]
             /\ loading' = [loading EXCEPT ![t] = FALSE]
        ELSE /\ pass' = [pass EXCEPT ![p].pc = "lookup", ![p].todo = rest,
                                     ![p].doses = doses]
             /\ UNCHANGED <<upcomingDoses, loading>>

ListMedicationsBlanking(p, ok) ==
    /\ pass[p].pc = "list"
    /\ LET t == pass[p].tab
           meds == ListActiveMedications(TabUser[t])
           todo == SchedulesDueToday(meds, GetDay(now))
       IN  IF ~ok
           THEN /\ pass' = [pass EXCEPT ![p] = IdlePass]
                /\ loading' = [loading EXCEPT ![t] = FALSE]
                /\ upcomingDoses' = [upcomingDoses EXCEPT ![t] = <<>>]
                /\ UNCHANGED medicationsState
           ELSE /\ medicationsState' = [medicationsState EXCEPT ![t] = meds]
                /\ IF todo = <<>>
                   THEN /\ pass' = [pass EXCEPT ![p] = IdlePass]
                        /\ upcomingDoses' = [upcomingDoses EXCEPT ![t] = ExposedDoses(<<>>)]
                        /\ loading' = [loading EXCEPT ![t] = FALSE]
                   ELSE /\ pass' = [pass EXCEPT ![p].pc = "lookup", ![p].now = now,
                                                ![p].todo = todo]
                        /\ UNCHANGED <<upcomingDoses, loading>>
    /\ UNCHANGED <<now, tables, otherState, dose_logs, patients>>

\* The medication listing answers; generateUpcomingDoses samples `now` and starts.
ListMedications(p, ok) ==
    /\ pass[p].pc = "list"
    /\ LET t == pass[p].tab
           meds == ListActiveMedications(TabUser[t])
           todo == SchedulesDueToday(meds, GetDay(now))
       IN  IF ~ok
           THEN /\ pass' = [pass EXCEPT ![p] = IdlePass]
                /\ loading' = [loading EXCEPT ![t] = FALSE]
                /\ UNCHANGED <<medicationsState, upcomingDoses>>
           ELSE /\ medicationsState' = [medicationsState EXCEPT ![t] = meds]
                /\ IF todo = <<>>
                   THEN /\ pass' = [pass EXCEPT ![p] = IdlePass]
                        /\ upcomingDoses' = [upcomingDoses EXCEPT ![t] = ExposedDoses(<<>>)]
                        /\ loading' = [loading EXCEPT ![t] = FALSE]
                   ELSE /\ pass' = [pass EXCEPT ![p].pc = "lookup", ![p].now = now,
                                                ![p].todo = todo]
                        /\ UNCHANGED <<upcomingDoses, loading>>
    /\ UNCHANGED <<now, tables, otherState, dose_logs, patients>>

Dose(item, t, log) ==
    [medication |-> item.medication, schedule |-> item.schedule,
     scheduledTime |-> t, doseLog |-> log]

\* The one-minute-window lookup answers.
LookupDoseLog(p, ok) ==
    /\ pass[p].pc = "lookup"
    /\ LET item == Head(pass[p].todo)
           t == ScheduledTime(pass[p].now, item.schedule.time)
           existingLog == IF ok THEN FindDoseLog(TabUser[pass[p].tab], item.schedule.id, t)
                                ELSE NoLog
       IN  IF existingLog = NoLog /\ Imminent(t, pass[p].now)
           THEN /\ pass' = [pass EXCEPT ![p].pc = "insert"]
                /\ UNCHANGED <<upcomingDoses, loading>>
           ELSE IF existingLog # NoLog
                THEN Continue(p, Append(pass[p].doses, Dose(item, t, existingLog)))
                ELSE Continue(p, pass[p].doses)
    /\ UNCHANGED <<now, tables, otherState, dose_logs, medicationsState, patients>>

InsertDoseLogUpsert(p, ok) ==
    /\ pass[p].pc = "insert"
    /\ ok => Len(dose_logs) < MaxLogs
    /\ LET item == Head(pass[p].todo)
           t == ScheduledTime(pass[p].now, item.schedule.time)
           row == NewDoseLog(item.schedule.id, t)
           reset == [j \in DOMAIN dose_logs |->
                       IF dose_logs[j].schedule_id = row.schedule_id
                       THEN [dose_logs[j] EXCEPT !.status = "pending"]
                       ELSE dose_logs[j]]
       IN  /\ dose_logs' = IF ok THEN Append(reset, row) ELSE dose_logs
           /\ Continue(p, Append(pass[p].doses, Dose(item, t, IF ok THEN row ELSE NoLog)))
    /\ UNCHANGED <<now, tables, otherState, medicationsState, patients>>

InsertDoseLogDroppingUnbacked(p, ok) ==
    /\ pass[p].pc = "insert"
    /\ ok => Len(dose_logs) < MaxLogs
    /\ LET item == Head(pass[p].todo)
           t == ScheduledTime(pass[p].now, item.schedule.time)
           row == NewDoseLog(item.schedule.id, t)
           stored == ok /\ CanInsertDoseLog(TabUser[pass[p].tab], row)
       IN  /\ dose_logs' = IF stored THEN Append(dose_logs, row) ELSE dose_logs
           /\ IF stored
              THEN Continue(p, Append(pass[p].doses, Dose(item, t, row)))
              ELSE Continue(p, pass[p].doses)
    /\ UNCHANGED <<now, tables, otherState, medicationsState, patients>>

\* The insert answers.
InsertDoseLog(p, ok) ==
    /\ pass[p].pc = "insert"
    /\ ok => Len(dose_logs) < MaxLogs
    /\ LET item == Head(pass[p].todo)
           t == ScheduledTime(pass[p].now, item.schedule.time)
           row == NewDoseLog(item.schedule.id, t)
           stored == ok /\ CanInsertDoseLog(TabUser[pass[p].tab], row)
           newLog == IF stored THEN row ELSE NoLog
       IN  /\ dose_logs' = IF stored THEN Append(dose_logs, row) ELSE dose_logs
           /\ Continue(p, Append(pass[p].doses, Dose(item, t, newLog)))
    /\ UNCHANGED <<now, tables, otherState, medicationsState, patients>>

----------------------------------------------------------------------------
(* The Taken and Skip buttons *)

UpdateTakenNoStamp(uid, id, at) ==
    [j \in DOMAIN dose_logs |->
        IF dose_logs[j].id = id /\ CanUpdateDoseLog(uid, dose_logs[j])
        THEN [dose_logs[j] EXCEPT !.status = "taken"]
        ELSE dose_logs[j]]

\* update({ status: 'taken', taken_at: new Date() }).eq('id', id) under the update policy
UpdateTaken(uid, id, at) ==
    [j \in DOMAIN dose_logs |->
        IF dose_logs[j].id = id /\ CanUpdateDoseLog(uid, dose_logs[j])
        THEN [dose_logs[j] EXCEPT !.status = "taken", !.taken_at = at]
        ELSE dose_logs[j]]

UpdateSkippedAsMissed(uid, id) ==
    [j \in DOMAIN dose_logs |->
        IF dose_logs[j].id = id /\ CanUpdateDoseLog(uid, dose_logs[j])
        THEN [dose_logs[j] EXCEPT !.status = "missed"]
        ELSE dose_logs[j]]

\* update({ status: 'skipped' }).eq('id', id) under the update policy
UpdateSkipped(uid, id) ==
    [j \in DOMAIN dose_logs |->
        IF dose_logs[j].id = id /\ CanUpdateDoseLog(uid, dose_logs[j])
        THEN [dose_logs[j] EXCEPT !.status = "skipped"]
        ELSE dose_logs[j]]

\* The buttons are rendered for the entries of upcomingDoses shown as pending.
ButtonsShown(t, i) ==
    /\ i \in DOMAIN upcomingDoses[t]
    /\ DisplayStatus(upcomingDoses[t][i]) = "pending"

MarkDoseTaken(t, i, ok) ==
    /\ ButtonsShown(t, i)
    /\ LET dose == upcomingDoses[t][i]
       IN  IF dose.doseLog = NoLog \/ ~ok
           THEN UNCHANGED <<dose_logs, pass>>
           ELSE /\ dose_logs' = UpdateTaken(TabUser[t], dose.doseLog.id, now)
                /\ \E p \in Passes : FreeSlot(p) /\ pass' = StartLoadData(p, t)
    /\ UNCHANGED <<now, tables, otherState, patientViews, patients>>

MarkDoseSkipped(t, i, ok) ==
    /\ ButtonsShown(t, i)
    /\ LET dose == upcomingDoses[t][i]
       IN  IF dose.doseLog = NoLog \/ ~ok
           THEN UNCHANGED <<dose_logs, pass>>
           ELSE /\ dose_logs' = UpdateSkipped(TabUser[t], dose.doseLog.id)
                /\ \E p \in Passes : FreeSlot(p) /\ pass' = StartLoadData(p, t)
    /\ UNCHANGED <<now, tables, otherState, patientViews, patients>>

----------------------------------------------------------------------------
(* Number arithmetic of the caregiver dashboard.  JavaScript numbers are     *)
(* IEEE-754 binary64 (53 significant bits).  A positive value is kept as an  *)
(* exact integer sig scaled by a power of two, sig written in five limbs of  *)
(* 13 bits, most significant first: <<l0, .., l4>> is the sum of             *)
(* l_i * Limb^(4-i), so l0 counts units of 2^52.                             *)
Limb == 2 ^ 13

RECURSIVE Pow2(_)
Pow2(n) == IF n = 0 THEN 1 ELSE 2 * Pow2(n - 1)

RECURSIVE BitLen(_)
BitLen(n) == IF n = 0 THEN 0 ELSE 1 + BitLen(n \div 2)

\* The s with d <= k * 2^s < 2d, for 0 < k <= d.
RECURSIVE NormShift(_, _)
NormShift(k, d) == IF k >= d THEN 0 ELSE 1 + NormShift(2 * k, d)

\* Carries from each limb into the next higher one; the top limb is left whole.
Propagate(ls) ==
    LET c4 == ls[5] \div Limb
        c3 == (ls[4] + c4) \div Limb
        c2 == (ls[3] + c3) \div Limb
        c1 == (ls[2] + c2) \div Limb
    IN  << ls[1] + c1, (ls[2] + c2) % Limb, (ls[3] + c3) % Limb,
           (ls[4] + c4) % Limb, ls[5] % Limb >>

\* takenDoses / totalDoses for 0 < k <= d: the quotient k/d rounded to the nearest
\* binary64, ties to even; the value is sig * 2^(-(shift + 52)).
DoubleDiv(k, d) ==
    LET s == NormShift(k, d)
        a == k * Pow2(s)
        r0 == a % d
        r1 == (r0 * Limb) % d
        r2 == (r1 * Limb) % d
        r3 == (r2 * Limb) % d
        r4 == (r3 * Limb) % d
        l4 == (r3 * Limb) \div d
        up == 2 * r4 > d \/ (2 * r4 = d /\ l4 % 2 = 1)
    IN  [sig |-> Propagate(<< a \div d, (r0 * Limb) \div d, (r1 * Limb) \div d,
                              (r2 * Limb) \div d, l4 + (IF up THEN 1 ELSE 0) >>),
         shift |-> s]

\* x * c for an integer c < 2^13: the exact product rounded to the nearest binary64,
\* ties to even; the scale of x is kept.
DoubleMul(x, c) ==
    LET prod == Propagate([i \in 1..5 |-> x.sig[i] * c])
        drop == BitLen(prod[1]) - 1
        unit == Pow2(drop)
        rem == prod[5] % unit
        odd == (prod[5] \div unit) % 2 = 1
        up == 2 * rem > unit \/ (2 * rem = unit /\ odd)
    IN  [sig |-> IF drop = 0 THEN prod
                 ELSE Propagate([prod EXCEPT ![5] = prod[5] - rem + (IF up THEN unit ELSE 0)]),
         shift |-> x.shift]

\* Math.round(x) for x > 0: floor(x + 1/2), the integer part plus the bit of weight 1/2
MathRound(x) ==
    LET w == x.sig[1] * Limb + x.sig[2]
    IN  (w \div Pow2(x.shift + 13)) + ((w \div Pow2(x.shift + 12)) % 2)

\* totalDoses > 0 ? Math.round((takenDoses / totalDoses) * 100) : 100
TodayCompliance(totalDoses, takenDoses) ==
    IF totalDoses > 0
    THEN IF takenDoses = 0 THEN 0
         ELSE MathRound(DoubleMul(DoubleDiv(takenDoses, totalDoses), 100))
    ELSE 100

----------------------------------------------------------------------------
(* The caregiver dashboard: the figures loadData computes for one patient *)
PatientStats(cg, pid) ==
    LET shownMed(m) == m.patient_id = pid /\ m.active /\ CanViewMedication(cg, m)
        today == StartOfDay(now)
        \* .gte('scheduled_time', today).eq('schedules.medications.patient_id', patient.id)
        ofToday(row) == /\ row.scheduled_time >= today
                        /\ PatientOfDoseLog(row) = pid
                        /\ CanViewDoseLog(cg, row)
        doseLogs == SelectSeq(dose_logs, ofToday)
        taken(row) == row.status = "taken"
        missed(row) == row.status = "missed"
        totalDoses == Len(doseLogs)
        takenDoses == Len(SelectSeq(doseLogs, taken))
        missedDoses == Len(SelectSeq(doseLogs, missed))
        meds == SelectSeq(medications, shownMed)
    IN  [id |-> pid,
         medications |-> [i \in DOMAIN meds |-> meds[i].id],
         missedDoses |-> missedDoses,
         todayCompliance |-> TodayCompliance(totalDoses, takenDoses)]

\* "Caregivers can view own alerts", "Caregivers can update own alerts"
CanViewAlert(uid, a) == a.caregiver_id = uid

\* from('alerts').select('*, dose_logs!inner(*, schedules!inner(..))')
\*   .eq('caregiver_id', id).is('read_at', null).order('sent_at', desc).limit(10)
UnreadAlerts(cg, rows) ==
    LET shown(a) == /\ a.caregiver_id = cg
                    /\ a.read_at = NULL
                    /\ CanViewAlert(cg, a)
                    /\ \E r \in Range(dose_logs) : r.id = a.dose_log_id /\ CanViewDoseLog(cg, r)
    IN  Take(Reverse(SelectSeq(rows, shown)), AlertsLimit)

PatientsOf(cg) ==
    LET own(c) == c.caregiver_id = cg
        connections == SelectSeq(caregiver_connections, own)
    IN  [i \in DOMAIN connections |-> PatientStats(cg, connections[i].patient_id)]

\* loadData of the caregiver dashboard: the loop over the caregiver's connections,
\* setPatients, the unread alerts, setAlerts.  The patient is identified by the
\* connection's patient_id.
LoadPatients(cg) ==
    /\ patients' = [patients EXCEPT ![cg] = PatientsOf(cg)]
    /\ alertsState' = [alertsState EXCEPT ![cg] = UnreadAlerts(cg, alerts)]
    /\ UNCHANGED <<now, tables, response, caregivers, caregiverError, addCaregiver,
                   education, dose_logs, pass, patientViews>>

\* update({ read_at: new Date() }).eq('id', alertId) under the update policy, then
\* loadData
MarkAlertRead(cg, i, ok) ==
    /\ i \in DOMAIN alertsState[cg]
    /\ IF ok
       THEN /\ alerts' = [j \in DOMAIN alerts |->
                             IF alerts[j].id = alertsState[cg][i].id /\ CanViewAlert(cg, alerts[j])
                             THEN [alerts[j] EXCEPT !.read_at = now]
                             ELSE alerts[j]]
            /\ patients' = [patients EXCEPT ![cg] = PatientsOf(cg)]
            /\ alertsState' = [alertsState EXCEPT ![cg] = UnreadAlerts(cg, alerts')]
       ELSE UNCHANGED <<alerts, patients, alertsState>>
    /\ UNCHANGED <<now, medications, schedules, caregiver_connections, response, caregivers,
                   caregiverError, addCaregiver, education, dose_logs, pass, patientViews>>

----------------------------------------------------------------------------
(* Add Medication *)

\* What the form's time field and weekday buttons hold on submit
AddTimes == {<<7, 30, 0>>, <<8, 0, 0>>}

NewMedication(uid) ==
    [id |-> "med" \o ToString(Len(medications) + 1), patient_id |-> uid, active |-> TRUE]

NewSchedule(medication_id, time, days) ==
    [id |-> "sch" \o ToString(Len(schedules) + 1), medication_id |-> medication_id,
     time |-> time, days_of_week |-> days, active |-> TRUE]

\* AddMedicationModal.handleSubmit: the medication insert, then the schedule
\* insert, then onSuccess (loadData) and onClose; a failed insert throws into the
\* catch, which logs.
AddMedication(t, time, days, okMedication, okSchedule) ==
    LET medication == NewMedication(TabUser[t])
    IN  /\ Len(medications) < MaxMedications
        /\ IF ~okMedication
           THEN UNCHANGED <<medications, schedules, pass>>
           ELSE /\ medications' = Append(medications, medication)
                /\ IF ~okSchedule
                   THEN UNCHANGED <<schedules, pass>>
                   ELSE /\ schedules' = Append(schedules, NewSchedule(medication.id, time, days))
                        /\ \E p \in Passes : FreeSlot(p) /\ pass' = StartLoadData(p, t)
        /\ UNCHANGED <<now, caregiver_connections, alerts, otherState, dose_logs,
                       patientViews, patients>>

----------------------------------------------------------------------------
(* The wall clock *)
\* Time passes within the local day, observed every half hour.
TickHalfHour ==
    /\ (now % DayMs) \div HalfHourMs < LastHalfHour
    /\ now' = now + HalfHourMs
    /\ UNCHANGED <<tables, otherState, dose_logs, pass, patientViews, patients>>

TickDay ==
    /\ now \div DayMs < LastDay
    /\ now' = now + DayMs
    /\ UNCHANGED <<tables, otherState, dose_logs, pass, patientViews, patients>>

----------------------------------------------------------------------------
\* Nothing requested yet; the caregiver panel not loaded, the modal closed, no
\* article opened.
NoResponse == [uid |-> "none", op |-> "none", error |-> "none", count |-> 0]

ClosedModal == [open |-> FALSE, email |-> Address(""), error |-> "none"]

InitOther ==
    /\ response = NoResponse
    /\ caregivers = [t \in Tabs |-> <<>>]
    /\ caregiverError = [t \in Tabs |-> "none"]
    /\ addCaregiver = [t \in Tabs |-> ClosedModal]
    /\ user_article_progress = <<>>
    /\ articles = [t \in Tabs |-> {}]
    /\ alertsState = [c \in Caregivers |-> <<>>]

Init ==
    /\ now = StartNow
    /\ medications = SeedMedications
    /\ schedules = SeedSchedules
    /\ dose_logs = <<>>
    /\ caregiver_connections = <<>>
    /\ alerts = <<>>
    /\ pass = [p \in Passes |-> IdlePass]
    /\ medicationsState = [t \in Tabs |-> <<>>]
    /\ upcomingDoses = [t \in Tabs |-> <<>>]
    /\ loading = [t \in Tabs |-> TRUE]
    /\ patients = [c \in Caregivers |-> <<>>]
    /\ InitOther

\* Two tabs during one local day; every persistence request may fail.
Next ==
    \/ \E t \in Tabs : LoadData(t)
    \/ \E p \in Passes, ok \in BOOLEAN : ListMedications(p, ok)
    \/ \E p \in Passes, ok \in BOOLEAN : LookupDoseLog(p, ok)
    \/ \E p \in Passes, ok \in BOOLEAN : InsertDoseLog(p, ok)
    \/ \E t \in Tabs, i \in 1..UpcomingLimit, ok \in BOOLEAN : MarkDoseTaken(t, i, ok)
    \/ \E t \in Tabs, i \in 1..UpcomingLimit, ok \in BOOLEAN : MarkDoseSkipped(t, i, ok)
    \/ TickHalfHour

Spec == Init /\ [][Next]_vars

\* Two tabs during one local day, the persistence layer reachable (every request
\* is answered).
NextReliable ==
    \/ \E t \in Tabs : LoadData(t)
    \/ \E p \in Passes : ListMedications(p, TRUE)
    \/ \E p \in Passes : LookupDoseLog(p, TRUE)
    \/ \E p \in Passes : InsertDoseLog(p, TRUE)
    \/ \E t \in Tabs, i \in 1..UpcomingLimit : MarkDoseTaken(t, i, TRUE)
    \/ \E t \in Tabs, i \in 1..UpcomingLimit : MarkDoseSkipped(t, i, TRUE)
    \/ TickHalfHour

SpecReliable == Init /\ [][NextReliable]_vars

\* Passes in succession over several days: a pass starts only when none is in
\* flight, the persistence layer reachable.
NoPassInFlight == \A p \in Passes : pass[p].pc = "idle"

NextSolo ==
    \/ \E t \in Tabs : NoPassInFlight /\ LoadData(t)
    \/ \E p \in Passes : ListMedications(p, TRUE)
    \/ \E p \in Passes : LookupDoseLog(p, TRUE)
    \/ \E p \in Passes : InsertDoseLog(p, TRUE)
    \/ \E t \in Tabs, i \in 1..UpcomingLimit : NoPassInFlight /\ MarkDoseTaken(t, i, TRUE)
    \/ \E t \in Tabs, i \in 1..UpcomingLimit : NoPassInFlight /\ MarkDoseSkipped(t, i, TRUE)
    \/ TickHalfHour
    \/ TickDay

SpecSolo == Init /\ [][NextSolo]_vars

\* One tab's passes in succession during one local day, every persistence request
\* may fail: a pass is retried by the next timer tick.
NextRetry ==
    \/ \E t \in Tabs : NoPassInFlight /\ LoadData(t)
    \/ \E p \in Passes, ok \in BOOLEAN : ListMedications(p, ok)
    \/ \E p \in Passes, ok \in BOOLEAN : LookupDoseLog(p, ok)
    \/ \E p \in Passes, ok \in BOOLEAN : InsertDoseLog(p, ok)
    \/ TickHalfHour

SpecRetry == Init /\ [][NextRetry]_vars

\* One day of passes in succession whose requests may fail, with the Taken and
\* Skip buttons pressed between passes.
NextUnbacked ==
    \/ \E t \in Tabs : NoPassInFlight /\ LoadData(t)
    \/ \E p \in Passes, ok \in BOOLEAN : ListMedications(p, ok)
    \/ \E p \in Passes, ok \in BOOLEAN : LookupDoseLog(p, ok)
    \/ \E p \in Passes, ok \in BOOLEAN : InsertDoseLog(p, ok)
    \/ \E t \in Tabs, i \in 1..UpcomingLimit, ok \in BOOLEAN :
          NoPassInFlight /\ MarkDoseTaken(t, i, ok)
    \/ \E t \in Tabs, i \in 1..UpcomingLimit, ok \in BOOLEAN :
          NoPassInFlight /\ MarkDoseSkipped(t, i, ok)
    \/ TickHalfHour

SpecUnbacked == Init /\ [][NextUnbacked]_vars

----------------------------------------------------------------------------
(* Requests of a signed-in client.  Every request of the dashboards is sent  *)
(* with the session of the signed-in user and is answered by the persistence *)
(* layer under the row-level policies; the answer is { data, error }.  A     *)
(* request below is the request a dashboard sends, sent by any signed-in     *)
(* user for any row.                                                         *)
Users == {"pat1", "pat2", "cg1"}

\* The schedules a request names: one of each patient.
RequestSchedules == {"sch1", "sch6"}

ScheduleById(id) == CHOOSE s \in Range(schedules) : s.id = id

\* from('dose_logs').insert({ schedule_id, scheduled_time, status: 'pending' })
\* A row failing the policy's WITH CHECK is refused with error 42501, a row of a
\* schedule that does not exist with 23503.
InsertDoseLogRequest(uid, schedule_id) ==
    LET exists == \E s \in Range(schedules) : s.id = schedule_id
        row == NewDoseLog(schedule_id, ScheduledTime(now, ScheduleById(schedule_id).time))
        error == IF ~exists THEN "23503"
                 ELSE IF ~CanInsertDoseLog(uid, row) THEN "42501" ELSE "none"
    IN  /\ Len(dose_logs) < MaxLogs
        /\ dose_logs' = IF error = "none" THEN Append(dose_logs, row) ELSE dose_logs
        /\ response' = [uid |-> uid, op |-> "insert dose_logs", error |-> error,
                        count |-> IF error = "none" THEN 1 ELSE 0]
        /\ UNCHANGED <<now, tables, caregiverViews, education, pass, patientViews, patients>>

\* update({ status, .. }).eq('id', id): the rows the update policy's USING clause
\* hides from the user are not matched, which is not an error.
UpdateDoseLogs(uid, id, status) ==
    IF status = "taken" THEN UpdateTaken(uid, id, now)
    ELSE IF status = "skipped" THEN UpdateSkipped(uid, id)
    ELSE [j \in DOMAIN dose_logs |->
            IF dose_logs[j].id = id /\ CanUpdateDoseLog(uid, dose_logs[j])
            THEN [dose_logs[j] EXCEPT !.status = status]
            ELSE dose_logs[j]]

UpdateDoseLogRequest(uid, id, status) ==
    LET matched == {j \in DOMAIN dose_logs :
                        dose_logs[j].id = id /\ CanUpdateDoseLog(uid, dose_logs[j])}
    IN  /\ dose_logs' = UpdateDoseLogs(uid, id, status)
        /\ response' = [uid |-> uid, op |-> "update dose_logs", error |-> "none",
                        count |-> Cardinality(matched)]
        /\ UNCHANGED <<now, tables, caregiverViews, education, pass, patientViews, patients>>

\* Two patients and the caregiver the first of them has connected, each signed in.
InitDoseLogAccess ==
    /\ now = StartNow
    /\ medications = SeedMedications
    /\ schedules = SeedSchedules
    /\ dose_logs = <<>>
    /\ caregiver_connections =
          << [id |-> 1, patient_id |-> "pat1", caregiver_id |-> "cg1",
              notify_missed_doses |-> TRUE] >>
    /\ alerts = <<>>
    /\ pass = [p \in Passes |-> IdlePass]
    /\ medicationsState = [t \in Tabs |-> <<>>]
    /\ upcomingDoses = [t \in Tabs |-> <<>>]
    /\ loading = [t \in Tabs |-> TRUE]
    /\ patients = [c \in Caregivers |-> <<>>]
    /\ InitOther

NextDoseLogAccess ==
    \/ \E uid \in Users, s \in RequestSchedules : InsertDoseLogRequest(uid, s)
    \/ \E uid \in Users, id \in 1..MaxLogs, status \in Statuses \ {"pending"} :
            UpdateDoseLogRequest(uid, id, status)

SpecDoseLogAccess == InitDoseLogAccess /\ [][NextDoseLogAccess]_vars

----------------------------------------------------------------------------
(* Caregiver connections: the Add Caregiver modal, the caregiver list of the *)
(* patient dashboard with its notification switch and Remove button, and the *)
(* requests behind them.                                                     *)

\* "Users can view own profile"
CanViewProfile(uid, p) == p.id = uid

\* "Patients can view own connections"
CanViewConnection(uid, c) == c.patient_id = uid \/ c.caregiver_id = uid

\* "Patients can create / update / delete own connections"
CanChangeConnection(uid, c) == c.patient_id = uid

\* email.trim().toLowerCase()
NormalizeEmail(e) == [e EXCEPT !.caps = FALSE, !.blanks = FALSE]

\* What is typed into the modal's e-mail field
TypedEmails ==
    { [name |-> "cg1", caps |-> TRUE, blanks |-> TRUE], Address("nobody"),
      [name |-> "", caps |-> FALSE, blanks |-> TRUE] }

\* from('profiles').select(..).eq('email', e).eq('role', 'caregiver'), as `uid` sees it
FindCaregiverProfiles(uid, e) ==
    {p \in Range(Profiles) : p.email = e /\ p.role = "caregiver" /\ CanViewProfile(uid, p)}

\* gen_random_uuid(): an id that no row has and no list still shows
FreshConnectionId ==
    LET used == {c.id : c \in Range(caregiver_connections)}
                  \cup UNION {{c.id : c \in Range(caregivers[t])} : t \in Tabs}
    IN  CHOOSE n \in 1..(MaxConnectionId + 1) : n \notin used /\ \A m \in used : m < n

\* The error an insert into caregiver_connections is answered with: the policy's
\* WITH CHECK first (42501), then UNIQUE(patient_id, caregiver_id) (23505).
InsertConnectionError(uid, patient_id, caregiver_id) ==
    IF ~CanChangeConnection(uid, [patient_id |-> patient_id, caregiver_id |-> caregiver_id])
    THEN "42501"
    ELSE IF \E c \in Range(caregiver_connections) :
                c.patient_id = patient_id /\ c.caregiver_id = caregiver_id
         THEN "23505"
         ELSE "none"

InsertConnection(uid, patient_id, caregiver_id) ==
    IF InsertConnectionError(uid, patient_id, caregiver_id) = "none"
    THEN Append(caregiver_connections,
                [id |-> FreshConnectionId, patient_id |-> patient_id,
                 caregiver_id |-> caregiver_id, notify_missed_doses |-> TRUE])
    ELSE caregiver_connections

\* update({ notify_missed_doses }).eq('id', id) under the update policy
UpdateConnection(uid, id, notify) ==
    [j \in DOMAIN caregiver_connections |->
        IF caregiver_connections[j].id = id /\ CanChangeConnection(uid, caregiver_connections[j])
        THEN [caregiver_connections[j] EXCEPT !.notify_missed_doses = notify]
        ELSE caregiver_connections[j]]

\* delete().eq('id', id) under the delete policy
DeleteConnection(uid, id) ==
    LET kept(c) == ~(c.id = id /\ CanChangeConnection(uid, c))
    IN  SelectSeq(caregiver_connections, kept)

\* loadCaregivers' query: the patient's connections, newest first
CaregiversOf(uid, connections) ==
    LET own(c) == c.patient_id = uid /\ CanViewConnection(uid, c)
        rows == Reverse(SelectSeq(connections, own))
    IN  [i \in DOMAIN rows |->
            [id |-> rows[i].id, caregiver_id |-> rows[i].caregiver_id,
             notify_missed_doses |-> rows[i].notify_missed_doses]]

restOfTables == <<medications, schedules, alerts>>
dashboards == <<now, dose_logs, pass, patientViews, patients, education, alertsState>>

LoadCaregivers(t, ok) ==
    /\ IF ok
       THEN /\ caregivers' = [caregivers EXCEPT ![t] = CaregiversOf(TabUser[t], caregiver_connections)]
            /\ caregiverError' = [caregiverError EXCEPT ![t] = "none"]
       ELSE /\ caregiverError' = [caregiverError EXCEPT ![t] = "Unable to load caregivers right now"]
            /\ UNCHANGED caregivers
    /\ UNCHANGED <<caregiver_connections, restOfTables, dashboards, response, addCaregiver>>

\* The Add Caregiver button, and the address typed into the modal it opens
OpenAddCaregiver(t, e) ==
    /\ ~addCaregiver[t].open
    /\ addCaregiver' = [addCaregiver EXCEPT ![t] = [open |-> TRUE, email |-> e, error |-> "none"]]
    /\ UNCHANGED <<caregiver_connections, restOfTables, dashboards, response,
                   caregivers, caregiverError>>

\* AddCaregiverModal.handleSubmit, with onAdded (loadCaregivers) and onClose
HandleSubmit(t) ==
    LET uid == TabUser[t]
        normalizedEmail == NormalizeEmail(addCaregiver[t].email)
        found == FindCaregiverProfiles(uid, normalizedEmail)
        failed(msg) ==
            /\ addCaregiver' = [addCaregiver EXCEPT ![t].error = msg]
            /\ UNCHANGED <<caregiver_connections, caregivers, caregiverError>>
    IN  /\ addCaregiver[t].open
        /\ IF normalizedEmail.name = ""
           THEN failed("Please provide a caregiver email.")
           ELSE IF Cardinality(found) > 1
           THEN failed("Unable to add caregiver right now. Please try again later.")
           ELSE IF found = {}
           THEN failed("Caregiver account not found. Ask them to sign up first.")
           ELSE LET caregiverProfile == CHOOSE p \in found : TRUE
                    insertError == InsertConnectionError(uid, uid, caregiverProfile.id)
                IN  IF insertError = "23505"
                    THEN failed("This caregiver is already connected.")
                    ELSE IF insertError # "none" \/ FreshConnectionId > MaxConnectionId
                    THEN failed("Unable to add caregiver right now. Please try again later.")
                    ELSE /\ caregiver_connections' = InsertConnection(uid, uid, caregiverProfile.id)
                         /\ caregivers' = [caregivers EXCEPT ![t] =
                                              CaregiversOf(uid, caregiver_connections')]
                         /\ caregiverError' = [caregiverError EXCEPT ![t] = "none"]
                         /\ addCaregiver' = [addCaregiver EXCEPT ![t] = ClosedModal]
        /\ UNCHANGED <<restOfTables, dashboards, response>>

HandleToggleCaregiverNotifications(t, i, ok) ==
    /\ i \in DOMAIN caregivers[t]
    /\ LET c == caregivers[t][i]
       IN  IF ok
           THEN /\ caregiver_connections' =
                      UpdateConnection(TabUser[t], c.id, ~c.notify_missed_doses)
                /\ caregivers' = [caregivers EXCEPT ![t] =
                                     CaregiversOf(TabUser[t], caregiver_connections')]
                /\ caregiverError' = [caregiverError EXCEPT ![t] = "none"]
           ELSE /\ caregiverError' = [caregiverError EXCEPT ![t] =
                                         "Unable to update notification preference"]
                /\ UNCHANGED <<caregiver_connections, caregivers>>
    /\ UNCHANGED <<restOfTables, dashboards, response, addCaregiver>>

HandleRemoveCaregiver(t, i, ok) ==
    /\ i \in DOMAIN caregivers[t]
    /\ LET c == caregivers[t][i]
       IN  IF ok
           THEN /\ caregiver_connections' = DeleteConnection(TabUser[t], c.id)
                /\ caregivers' = [caregivers EXCEPT ![t] =
                                     CaregiversOf(TabUser[t], caregiver_connections')]
                /\ caregiverError' = [caregiverError EXCEPT ![t] = "none"]
           ELSE /\ caregiverError' = [caregiverError EXCEPT ![t] =
                                         "Unable to remove caregiver right now"]
                /\ UNCHANGED <<caregiver_connections, caregivers>>
    /\ UNCHANGED <<restOfTables, dashboards, response, addCaregiver>>

\* The same three requests sent by any signed-in user
InsertConnectionRequest(uid, patient_id, caregiver_id) ==
    LET error == InsertConnectionError(uid, patient_id, caregiver_id)
    IN  /\ FreshConnectionId <= MaxConnectionId
        /\ caregiver_connections' = InsertConnection(uid, patient_id, caregiver_id)
        /\ response' = [uid |-> uid, op |-> "insert caregiver_connections", error |-> error,
                        count |-> IF error = "none" THEN 1 ELSE 0]
        /\ UNCHANGED <<restOfTables, dashboards, caregiverViews>>

UpdateConnectionRequest(uid, id, notify) ==
    LET matched == {j \in DOMAIN caregiver_connections :
                        /\ caregiver_connections[j].id = id
                        /\ CanChangeConnection(uid, caregiver_connections[j])}
    IN  /\ caregiver_connections' = UpdateConnection(uid, id, notify)
        /\ response' = [uid |-> uid, op |-> "update caregiver_connections", error |-> "none",
                        count |-> Cardinality(matched)]
        /\ UNCHANGED <<restOfTables, dashboards, caregiverViews>>

DeleteConnectionRequest(uid, id) ==
    /\ caregiver_connections' = DeleteConnection(uid, id)
    /\ response' = [uid |-> uid, op |-> "delete caregiver_connections", error |-> "none",
                    count |-> Len(caregiver_connections) - Len(caregiver_connections')]
    /\ UNCHANGED <<restOfTables, dashboards, caregiverViews>>

\* Two tabs of patient pat1 with the caregiver panel, the persistence layer
\* reachable, while any signed-in user sends connection requests of their own.
NextSharing ==
    \/ \E t \in Tabs : LoadCaregivers(t, TRUE)
    \/ \E t \in Tabs, e \in TypedEmails : OpenAddCaregiver(t, e)
    \/ \E t \in Tabs : HandleSubmit(t)
    \/ \E t \in Tabs, i \in 1..MaxConnectionId :
            HandleToggleCaregiverNotifications(t, i, TRUE)
    \/ \E t \in Tabs, i \in 1..MaxConnectionId : HandleRemoveCaregiver(t, i, TRUE)
    \/ \E uid \in Users, patient_id \in {"pat1", "pat2"}, caregiver_id \in Caregivers :
            InsertConnectionRequest(uid, patient_id, caregiver_id)
    \/ \E uid \in Users, id \in 1..MaxConnectionId, notify \in BOOLEAN :
            UpdateConnectionRequest(uid, id, notify)
    \/ \E uid \in Users, id \in 1..MaxConnectionId : DeleteConnectionRequest(uid, id)

SpecSharing == Init /\ [][NextSharing]_vars

----------------------------------------------------------------------------
(* What a caregiver may read and write of a patient's medications, schedules *)
(* and dose logs.                                                            *)

CanChangeMedicationIfConnected(uid, m) == m.patient_id = uid \/ Connected(uid, m.patient_id)

\* "Patients can update own medications", "Patients can delete own medications"
CanChangeMedication(uid, m) == m.patient_id = uid

\* "Patients can update / delete schedules for own medications"
CanChangeSchedule(uid, s) ==
    \E m \in Range(medications) : m.id = s.medication_id /\ m.patient_id = uid

\* dose_logs has no DELETE policy: no row is visible to a delete
CanDeleteDoseLog(uid, row) == FALSE

\* select('*') on the three tables in the session of `uid`
ReadableMedications(uid) == {m \in Range(medications) : CanViewMedication(uid, m)}
ReadableSchedules(uid) == {s \in Range(schedules) : CanViewSchedule(uid, s)}
ReadableDoseLogs(uid) == {r \in Range(dose_logs) : CanViewDoseLog(uid, r)}

\* ON DELETE CASCADE from medications to schedules to dose_logs
SchedulesOf(meds) ==
    LET kept(s) == \E m \in Range(meds) : m.id = s.medication_id
    IN  SelectSeq(schedules, kept)

DoseLogsOf(scheds) ==
    LET kept(r) == \E s \in Range(scheds) : s.id = r.schedule_id
    IN  SelectSeq(dose_logs, kept)

connectionState == <<caregiver_connections, alerts, caregiverViews>>
sessions == <<now, pass, patientViews, patients, education>>

UpdateMedicationRequest(uid, id, active) ==
    LET hit(m) == m.id = id /\ CanChangeMedication(uid, m)
    IN  /\ medications' = [j \in DOMAIN medications |->
                              IF hit(medications[j])
                              THEN [medications[j] EXCEPT !.active = active]
                              ELSE medications[j]]
        /\ response' = [uid |-> uid, op |-> "update medications", error |-> "none",
                        count |-> Cardinality({j \in DOMAIN medications : hit(medications[j])})]
        /\ UNCHANGED <<schedules, dose_logs, connectionState, sessions>>

DeleteMedicationRequest(uid, id) ==
    LET kept(m) == ~(m.id = id /\ CanChangeMedication(uid, m))
    IN  /\ medications' = SelectSeq(medications, kept)
        /\ schedules' = SchedulesOf(medications')
        /\ dose_logs' = DoseLogsOf(schedules')
        /\ response' = [uid |-> uid, op |-> "delete medications", error |-> "none",
                        count |-> Len(medications) - Len(medications')]
        /\ UNCHANGED <<connectionState, sessions>>

UpdateScheduleRequest(uid, id, active) ==
    LET hit(s) == s.id = id /\ CanChangeSchedule(uid, s)
    IN  /\ schedules' = [j \in DOMAIN schedules |->
                            IF hit(schedules[j])
                            THEN [schedules[j] EXCEPT !.active = active]
                            ELSE schedules[j]]
        /\ response' = [uid |-> uid, op |-> "update schedules", error |-> "none",
                        count |-> Cardinality({j \in DOMAIN schedules : hit(schedules[j])})]
        /\ UNCHANGED <<medications, dose_logs, connectionState, sessions>>

DeleteScheduleRequest(uid, id) ==
    LET kept(s) == ~(s.id = id /\ CanChangeSchedule(uid, s))
    IN  /\ schedules' = SelectSeq(schedules, kept)
        /\ dose_logs' = DoseLogsOf(schedules')
        /\ response' = [uid |-> uid, op |-> "delete schedules", error |-> "none",
                        count |-> Len(schedules) - Len(schedules')]
        /\ UNCHANGED <<medications, connectionState, sessions>>

DeleteDoseLogRequest(uid, id) ==
    LET kept(r) == ~(r.id = id /\ CanDeleteDoseLog(uid, r))
    IN  /\ dose_logs' = SelectSeq(dose_logs, kept)
        /\ response' = [uid |-> uid, op |-> "delete dose_logs", error |-> "none",
                        count |-> Len(dose_logs) - Len(dose_logs')]
        /\ UNCHANGED <<medications, schedules, connectionState, sessions>>

\* Patient pat1, patient pat2 and caregiver cg1, each signed in, each patient's
\* dashboard having stored this morning's pending row: connections are made and
\* removed while each user sends write requests about pat1's medication med1, its
\* schedule sch1 and the dose logs.
SeedDoseLog(id, schedule_id) ==
    LET s == CHOOSE x \in Range(SeedSchedules) : x.id = schedule_id
    IN  [id |-> id, schedule_id |-> schedule_id,
         scheduled_time |-> ScheduledTime(StartNow, s.time),
         taken_at |-> NULL, status |-> "pending"]

InitCaregiverAccess ==
    /\ now = StartNow
    /\ medications = SeedMedications
    /\ schedules = SeedSchedules
    /\ dose_logs = << SeedDoseLog(1, "sch1"), SeedDoseLog(2, "sch6") >>
    /\ caregiver_connections = <<>>
    /\ alerts = <<>>
    /\ pass = [p \in Passes |-> IdlePass]
    /\ medicationsState = [t \in Tabs |-> <<>>]
    /\ upcomingDoses = [t \in Tabs |-> <<>>]
    /\ loading = [t \in Tabs |-> TRUE]
    /\ patients = [c \in Caregivers |-> <<>>]
    /\ InitOther

NextCaregiverAccess ==
    \/ \E uid \in Users, patient_id \in {"pat1", "pat2"}, caregiver_id \in Caregivers :
            InsertConnectionRequest(uid, patient_id, caregiver_id)
    \/ \E uid \in Users, id \in 1..MaxConnectionId : DeleteConnectionRequest(uid, id)
    \/ \E uid \in Users, id \in {1, 2} : UpdateDoseLogRequest(uid, id, "taken")
    \/ \E uid \in Users, id \in {1, 2} : DeleteDoseLogRequest(uid, id)
    \/ \E uid \in Users : UpdateMedicationRequest(uid, "med1", FALSE)
    \/ \E uid \in Users : DeleteMedicationRequest(uid, "med1")
    \/ \E uid \in Users : UpdateScheduleRequest(uid, "sch1", FALSE)
    \/ \E uid \in Users : DeleteScheduleRequest(uid, "sch1")

SpecCaregiverAccess == InitCaregiverAccess /\ [][NextCaregiverAccess]_vars

----------------------------------------------------------------------------
(* Health education: the read and bookmark marks of the signed-in user *)
Articles == {"art1", "art2"}

\* The row of (user, article), if any
ProgressRows(uid, article) ==
    {j \in DOMAIN user_article_progress :
        /\ user_article_progress[j].user_id = uid
        /\ user_article_progress[j].article_id = article}

\* The columns a payload leaves out keep `base`'s values.
Merge(base, payload) ==
    [k \in DOMAIN base |-> IF k \in DOMAIN payload THEN payload[k] ELSE base[k]]

\* Column defaults of a new row: read_at DEFAULT now(), bookmarked DEFAULT false
NewProgress(uid, article) ==
    [user_id |-> uid, article_id |-> article, read_at |-> now, bookmarked |-> FALSE]

UpsertReplacing(uid, article, payload) ==
    IF ProgressRows(uid, article) = {}
    THEN Append(user_article_progress, Merge(NewProgress(uid, article), payload))
    ELSE [j \in DOMAIN user_article_progress |->
            IF j \in ProgressRows(uid, article)
            THEN Merge(NewProgress(uid, article), payload)
            ELSE user_article_progress[j]]

\* upsert(payload, { onConflict: 'user_id,article_id' }): INSERT .. ON CONFLICT
\* (user_id, article_id) DO UPDATE SET the payload's columns
Upsert(uid, article, payload) ==
    IF ProgressRows(uid, article) = {}
    THEN Append(user_article_progress, Merge(NewProgress(uid, article), payload))
    ELSE [j \in DOMAIN user_article_progress |->
            IF j \in ProgressRows(uid, article)
            THEN Merge(user_article_progress[j], payload)
            ELSE user_article_progress[j]]

\* enrichedArticles: isRead is "a progress row exists", isBookmarked its flag
EnrichedArticles(uid, progress) ==
    {[id |-> a,
      isRead |-> \E p \in Range(progress) : p.user_id = uid /\ p.article_id = a,
      isBookmarked |-> \E p \in Range(progress) :
                          p.user_id = uid /\ p.article_id = a /\ p.bookmarked] : a \in Articles}

elsewhere == <<tables, dose_logs, pass, patientViews, patients, response, caregiverViews>>

LoadTopicsAndArticles(t) ==
    /\ articles' = [articles EXCEPT ![t] = EnrichedArticles(TabUser[t], user_article_progress)]
    /\ UNCHANGED <<now, user_article_progress, elsewhere>>

\* openArticle -> markAsRead, then loadTopicsAndArticles
MarkAsRead(t, a, ok) ==
    /\ \E article \in articles[t] : article.id = a
    /\ IF ok
       THEN /\ user_article_progress' = Upsert(TabUser[t], a, [read_at |-> now])
            /\ articles' = [articles EXCEPT ![t] =
                               EnrichedArticles(TabUser[t], user_article_progress')]
       ELSE UNCHANGED <<user_article_progress, articles>>
    /\ UNCHANGED <<now, elsewhere>>

\* toggleBookmark(article.id, article.isBookmarked || false), then loadTopicsAndArticles
ToggleBookmark(t, a, ok) ==
    /\ \E article \in articles[t] : article.id = a
    /\ LET article == CHOOSE x \in articles[t] : x.id = a
       IN  IF ok
           THEN /\ user_article_progress' =
                      Upsert(TabUser[t], a, [bookmarked |-> ~article.isBookmarked])
                /\ articles' = [articles EXCEPT ![t] =
                                   EnrichedArticles(TabUser[t], user_article_progress')]
           ELSE UNCHANGED <<user_article_progress, articles>>
    /\ UNCHANGED <<now, elsewhere>>

\* The reader open in two tabs during one morning; a request may fail.
NextEducation ==
    \/ \E t \in Tabs : LoadTopicsAndArticles(t)
    \/ \E t \in Tabs, a \in Articles, ok \in BOOLEAN : MarkAsRead(t, a, ok)
    \/ \E t \in Tabs, a \in Articles, ok \in BOOLEAN : ToggleBookmark(t, a, ok)
    \/ TickHalfHour

SpecEducation == Init /\ [][NextEducation]_vars

----------------------------------------------------------------------------
\* One morning of patient pat1, whose medication med1 and its schedule sch1 are
\* switched off and on between passes; the persistence layer reachable.
NextDeactivate ==
    \/ \E t \in Tabs : NoPassInFlight /\ LoadData(t)
    \/ \E p \in Passes : ListMedications(p, TRUE)
    \/ \E p \in Passes : LookupDoseLog(p, TRUE)
    \/ \E p \in Passes : InsertDoseLog(p, TRUE)
    \/ \E active \in BOOLEAN : NoPassInFlight /\ UpdateScheduleRequest("pat1", "sch1", active)
    \/ \E active \in BOOLEAN : NoPassInFlight /\ UpdateMedicationRequest("pat1", "med1", active)
    \/ TickHalfHour

SpecDeactivate == Init /\ [][NextDeactivate]_vars

----------------------------------------------------------------------------
\* The dashboard is opened at some full hour of a Friday or a Saturday on which
\* nothing has been logged yet, and its passes run faster than the clock moves.
InitLate ==
    /\ \E d \in {5, 6}, h \in 0..LastHour : now = d * DayMs + h * HourMs
    /\ medications = SeedMedications
    /\ schedules = SeedSchedules
    /\ dose_logs = <<>>
    /\ caregiver_connections = <<>>
    /\ alerts = <<>>
    /\ pass = [p \in Passes |-> IdlePass]
    /\ medicationsState = [t \in Tabs |-> <<>>]
    /\ upcomingDoses = [t \in Tabs |-> <<>>]
    /\ loading = [t \in Tabs |-> TRUE]
    /\ patients = [c \in Caregivers |-> <<>>]
    /\ InitOther

NextLate ==
    \/ \E t \in Tabs : NoPassInFlight /\ LoadData(t)
    \/ \E p \in Passes : ListMedications(p, TRUE)
    \/ \E p \in Passes : LookupDoseLog(p, TRUE)
    \/ \E p \in Passes : InsertDoseLog(p, TRUE)

SpecLate == InitLate /\ [][NextLate]_vars

----------------------------------------------------------------------------
\* One morning of patient pat1 adding medications between the passes of two tabs;
\* every insert of the form may fail.
AllDays == {0, 1, 2, 3, 4, 5, 6}

NextAddMedication ==
    \/ \E t \in Tabs : NoPassInFlight /\ LoadData(t)
    \/ \E p \in Passes : ListMedications(p, TRUE)
    \/ \E p \in Passes : LookupDoseLog(p, TRUE)
    \/ \E p \in Passes : InsertDoseLog(p, TRUE)
    \/ \E t \in Tabs, time \in AddTimes, okMedication, okSchedule \in BOOLEAN :
            NoPassInFlight /\ AddMedication(t, time, AllDays, okMedication, okSchedule)
    \/ TickHalfHour

SpecAddMedication == Init /\ [][NextAddMedication]_vars

----------------------------------------------------------------------------
\* Everything the two dashboards do, in one tab of patient pat1 and in the
\* dashboard of caregiver cg1, over a database that already holds the two
\* connections and, written from outside the application, yesterday's missed dose
\* of pat2 with its alert to cg1.
InitInProcess ==
    /\ now = StartNow + HalfHourMs
    /\ medications = SeedMedications
    /\ schedules = SeedSchedules
    /\ dose_logs = << [id |-> 1, schedule_id |-> "sch6",
                       scheduled_time |-> StartNow - DayMs + HalfHourMs,
                       taken_at |-> NULL, status |-> "missed"] >>
    /\ caregiver_connections = SeedConnections
    /\ alerts = << [id |-> 1, dose_log_id |-> 1, caregiver_id |-> "cg1", read_at |-> NULL] >>
    /\ pass = [p \in Passes |-> IdlePass]
    /\ medicationsState = [t \in Tabs |-> <<>>]
    /\ upcomingDoses = [t \in Tabs |-> <<>>]
    /\ loading = [t \in Tabs |-> TRUE]
    /\ patients = [c \in Caregivers |-> <<>>]
    /\ InitOther

NextInProcess ==
    \/ NoPassInFlight /\ LoadData("tabA")
    \/ \E p \in Passes : ListMedications(p, TRUE)
    \/ \E p \in Passes : LookupDoseLog(p, TRUE)
    \/ \E p \in Passes : InsertDoseLog(p, TRUE)
    \/ \E i \in 1..UpcomingLimit : NoPassInFlight /\ MarkDoseTaken("tabA", i, TRUE)
    \/ \E i \in 1..UpcomingLimit : NoPassInFlight /\ MarkDoseSkipped("tabA", i, TRUE)
    \/ NoPassInFlight /\ AddMedication("tabA", <<8, 0, 0>>, AllDays, TRUE, TRUE)
    \/ LoadCaregivers("tabA", TRUE)
    \/ OpenAddCaregiver("tabA", [name |-> "cg1", caps |-> TRUE, blanks |-> TRUE])
    \/ HandleSubmit("tabA")
    \/ \E i \in 1..MaxConnectionId : HandleToggleCaregiverNotifications("tabA", i, TRUE)
    \/ \E i \in 1..MaxConnectionId : HandleRemoveCaregiver("tabA", i, TRUE)
    \/ \E cg \in Caregivers : LoadPatients(cg)
    \/ \E cg \in Caregivers, i \in 1..AlertsLimit : MarkAlertRead(cg, i, TRUE)

SpecInProcess == InitInProcess /\ [][NextInProcess]_vars

----------------------------------------------------------------------------
\* Two tabs during one morning in which the persistence layer answers until 08:00
\* and fails every request from then on.
OutageAt == 8 * HourMs

Reachable == now % DayMs < OutageAt

NextOutage ==
    \/ \E t \in Tabs : LoadData(t)
    \/ \E p \in Passes : ListMedications(p, Reachable)
    \/ \E p \in Passes : LookupDoseLog(p, Reachable)
    \/ \E p \in Passes : InsertDoseLog(p, Reachable)
    \/ \E t \in Tabs, i \in 1..UpcomingLimit : MarkDoseTaken(t, i, Reachable)
    \/ \E t \in Tabs, i \in 1..UpcomingLimit : MarkDoseSkipped(t, i, Reachable)
    \/ TickHalfHour

SpecOutage == Init /\ [][NextOutage]_vars

----------------------------------------------------------------------------
\* One tab on its own during one morning: the timer starts a pass only when the
\* one before has ended, while the buttons and the Add Medication form are used
\* at any moment; the persistence layer reachable.
NextOneTab ==
    \/ NoPassInFlight /\ LoadData("tabA")
    \/ \E p \in Passes : ListMedications(p, TRUE)
    \/ \E p \in Passes : LookupDoseLog(p, TRUE)
    \/ \E p \in Passes : InsertDoseLog(p, TRUE)
    \/ \E i \in 1..UpcomingLimit : MarkDoseTaken("tabA", i, TRUE)
    \/ \E i \in 1..UpcomingLimit : MarkDoseSkipped("tabA", i, TRUE)
    \/ \E time \in AddTimes : AddMedication("tabA", time, AllDays, TRUE, TRUE)
    \/ TickHalfHour

SpecOneTab == Init /\ [][NextOneTab]_vars

\* A patient with up to MaxSchedules doses on a weekday morning, spread over two
\* medications and stored in an order that is not the order of their times; every
\* dose that exists has the row an earlier pass of the morning created for it.
ListingMedications ==
    << [id |-> "med1", patient_id |-> "pat1", active |-> TRUE],
       [id |-> "med4", patient_id |-> "pat1", active |-> TRUE] >>

ListingSchedule(k) ==
    [id |-> "dose" \o ToString(k),
     medication_id |-> IF k % 2 = 0 THEN "med4" ELSE "med1",
     time |-> <<1 + ((3 * k) % 7), IF k % 2 = 0 THEN 30 ELSE 0, 0>>,
     days_of_week |-> {1, 2, 3, 4, 5},
     active |-> TRUE]

ListingLogs(ss) ==
    [i \in DOMAIN ss |->
        [id |-> i, schedule_id |-> ss[i].id,
         scheduled_time |-> ScheduledTime(StartNow, ss[i].time),
         taken_at |-> NULL, status |-> "pending"]]

InitListing ==
    /\ now = StartNow
    /\ medications = ListingMedications
    /\ \E chosen \in SUBSET (1..MaxSchedules) :
           LET all == [k \in 1..MaxSchedules |-> ListingSchedule(k)]
               kept(s) == \E k \in chosen : s = ListingSchedule(k)
               ss == SelectSeq(all, kept)
           IN  /\ schedules = ss
               /\ dose_logs = ListingLogs(ss)
    /\ caregiver_connections = <<>>
    /\ alerts = <<>>
    /\ pass = [p \in Passes |-> IdlePass]
    /\ medicationsState = [t \in Tabs |-> <<>>]
    /\ upcomingDoses = [t \in Tabs |-> <<>>]
    /\ loading = [t \in Tabs |-> TRUE]
    /\ patients = [c \in Caregivers |-> <<>>]
    /\ InitOther

NextListing ==
    \/ \E t \in Tabs : NoPassInFlight /\ LoadData(t)
    \/ \E p \in Passes : ListMedications(p, TRUE)
    \/ \E p \in Passes : LookupDoseLog(p, TRUE)

SpecListing == InitListing /\ [][NextListing]_vars

\* The same morning later on: the doses at or before hour `settled` have been
\* answered with the buttons, taken for the odd ones and skipped for the even ones.
SettledLogs(ss, settled) ==
    [i \in DOMAIN ss |->
        IF ss[i].time[1] <= settled
        THEN [ListingLogs(ss)[i] EXCEPT
                !.status = IF i % 2 = 1 THEN "taken" ELSE "skipped",
                !.taken_at = IF i % 2 = 1 THEN ListingLogs(ss)[i].scheduled_time ELSE NULL]
        ELSE ListingLogs(ss)[i]]

InitCap ==
    /\ now = StartNow
    /\ medications = ListingMedications
    /\ \E chosen \in SUBSET (1..MaxSchedules), settled \in 0..MaxSchedules :
           LET all == [k \in 1..MaxSchedules |-> ListingSchedule(k)]
               kept(s) == \E k \in chosen : s = ListingSchedule(k)
               ss == SelectSeq(all, kept)
           IN  /\ schedules = ss
               /\ dose_logs = SettledLogs(ss, settled)
    /\ caregiver_connections = <<>>
    /\ alerts = <<>>
    /\ pass = [p \in Passes |-> IdlePass]
    /\ medicationsState = [t \in Tabs |-> <<>>]
    /\ upcomingDoses = [t \in Tabs |-> <<>>]
    /\ loading = [t \in Tabs |-> TRUE]
    /\ patients = [c \in Caregivers |-> <<>>]
    /\ InitOther

SpecCap == InitCap /\ [][NextListing]_vars

\* The caregiver dashboard over a day's dose logs: nTaken taken rows and nRest rows
\* of the other statuses for today's dose of pat1, one taken row of yesterday, and
\* one taken row of today for another connected patient.
DayLogs(nTaken, nRest) ==
    LET today == ScheduledTime(StartNow, <<8, 0, 0>>)
        rest == <<"pending", "missed", "skipped">>
        n == nTaken + nRest
    IN  [i \in 1..(n + 2) |->
            IF i <= nTaken
            THEN [id |-> i, schedule_id |-> "sch1", scheduled_time |-> today,
                  taken_at |-> today, status |-> "taken"]
            ELSE IF i <= n
            THEN [id |-> i, schedule_id |-> "sch1", scheduled_time |-> today,
                  taken_at |-> NULL, status |-> rest[(i % 3) + 1]]
            ELSE IF i = n + 1
            THEN [id |-> i, schedule_id |-> "sch1", scheduled_time |-> today - DayMs,
                  taken_at |-> today - DayMs, status |-> "taken"]
            ELSE [id |-> i, schedule_id |-> "sch6",
                  scheduled_time |-> ScheduledTime(StartNow, <<7, 30, 0>>),
                  taken_at |-> StartNow, status |-> "taken"]]

InitCompliance ==
    /\ now = StartNow
    /\ medications = SeedMedications
    /\ schedules = SeedSchedules
    /\ \E nTaken \in 0..MaxDayLogs : \E nRest \in 0..(MaxDayLogs - nTaken) :
           dose_logs = DayLogs(nTaken, nRest)
    /\ caregiver_connections = SeedConnections
    /\ alerts = <<>>
    /\ pass = [p \in Passes |-> IdlePass]
    /\ medicationsState = [t \in Tabs |-> <<>>]
    /\ upcomingDoses = [t \in Tabs |-> <<>>]
    /\ loading = [t \in Tabs |-> TRUE]
    /\ patients = [c \in Caregivers |-> <<>>]
    /\ InitOther

NextCompliance == \E cg \in Caregivers : LoadPatients(cg)

SpecCompliance == InitCompliance /\ [][NextCompliance]_vars

----------------------------------------------------------------------------
(* Properties *)

\* The rows of logs that record the occurrence of one schedule at one timestamp.
RowsIn(logs, schedule_id, t) ==
    {i \in DOMAIN logs : logs[i].schedule_id = schedule_id /\ logs[i].scheduled_time = t}

\* Pass p takes its step that awaits the answer named by pc.
PassStep(p, pc) == pass[p].pc = pc /\ pass'[p] # pass[p]

\* The occurrence pass p is working on: the schedule and its timestamp today.
HeadSchedule(p) == Head(pass[p].todo).schedule

HeadTime(p) == ScheduledTime(pass[p].now, HeadSchedule(p).time)

\* What pass p has produced after its step: the list under construction, or the
\* list it handed to its tab when it finished.
OutputAfter(p) ==
    IF pass'[p].pc = "idle" THEN upcomingDoses'[pass[p].tab] ELSE pass'[p].doses

WithinTheHour(t, passNow) == t - passNow < ImminentMs /\ passNow - t <= ImminentMs

\* The schedules of user uid that are active, of an active medication, and due on
\* the weekday of instant t.
DueSchedules(uid, t) ==
    {s \in Range(schedules) :
        /\ s.active
        /\ GetDay(t) \in s.days_of_week
        /\ \E m \in Range(medications) :
               m.id = s.medication_id /\ m.active /\ m.patient_id = uid}

\* C1: for an active schedule of an active medication due today whose time today is
\* within one hour of the pass's now and that has no row for that timestamp, the
\* pass asks for an insert, the insert stores exactly one row with status pending
\* and no taken_at for that schedule and timestamp, and a pass that runs to its end
\* leaves every such schedule with a row.
C1_MaterializesImminent ==
    [][\A p \in Passes :
          /\ ( /\ PassStep(p, "lookup")
               /\ WithinTheHour(HeadTime(p), pass[p].now)
               /\ RowsIn(dose_logs, HeadSchedule(p).id, HeadTime(p)) = {} )
             => /\ pass'[p].pc = "insert"
                /\ pass'[p].todo = pass[p].todo
          /\ PassStep(p, "insert")
             => /\ dose_logs' = Append(dose_logs,
                                       [id |-> Len(dose_logs) + 1,
                                        schedule_id |-> HeadSchedule(p).id,
                                        scheduled_time |-> HeadTime(p),
                                        taken_at |-> NULL,
                                        status |-> "pending"])
                /\ pass'[p].pc # "insert"
          /\ ( /\ pass[p].pc \in {"lookup", "insert"}
               /\ pass'[p].pc = "idle" )
             => \A s \in DueSchedules(TabUser[pass[p].tab], pass[p].now) :
                    WithinTheHour(ScheduledTime(pass[p].now, s.time), pass[p].now)
                    => RowsIn(dose_logs', s.id, ScheduledTime(pass[p].now, s.time)) # {}
      ]_vars

\* A pass has created the one pending row of a dose that is still to come, and its
\* tab shows it.
C1_Witness ==
    \E t \in Tabs :
        /\ Len(dose_logs) = 1
        /\ Len(upcomingDoses[t]) = 1
        /\ upcomingDoses[t][1].doseLog = dose_logs[1]
        /\ dose_logs[1].status = "pending"
        /\ dose_logs[1].taken_at = NULL
        /\ dose_logs[1].scheduled_time > now
        /\ dose_logs[1].scheduled_time - now < ImminentMs

\* C2: when passes run one after the other, no two rows record the same schedule
\* and timestamp, and a pass only asks for an insert when no such row exists.
C2_SecondPassCreatesNothing ==
    /\ \A i, j \in DOMAIN dose_logs :
           (/\ dose_logs[i].schedule_id = dose_logs[j].schedule_id
            /\ dose_logs[i].scheduled_time = dose_logs[j].scheduled_time) => i = j
    /\ \A p \in Passes :
           pass[p].pc = "insert"
           => RowsIn(dose_logs, HeadSchedule(p).id, HeadTime(p)) = {}

\* Two passes, one after the other, have both ended and both show the same row.
C2_Witness ==
    /\ Len(dose_logs) = 1
    /\ \A t \in Tabs :
           /\ Len(upcomingDoses[t]) = 1
           /\ upcomingDoses[t][1].doseLog.id = dose_logs[1].id
    /\ \A p \in Passes : pass[p].pc = "idle"

\* C3: an insert asked for by a pass whose lookup found no row is stored even when
\* another pass has stored a row for the same schedule and timestamp in between:
\* the rows of that occurrence grow by one.
C3_RacingInsertIsStored ==
    [][\A p \in Passes :
          ( /\ PassStep(p, "insert")
            /\ RowsIn(dose_logs, HeadSchedule(p).id, HeadTime(p)) # {} )
          => RowsIn(dose_logs', HeadSchedule(p).id, HeadTime(p))
                 = RowsIn(dose_logs, HeadSchedule(p).id, HeadTime(p))
                       \cup {Len(dose_logs) + 1}
      ]_vars

\* Two rows record the same schedule and timestamp, and each tab shows its own.
C3_Witness ==
    /\ Len(dose_logs) = 2
    /\ dose_logs[1].schedule_id = dose_logs[2].schedule_id
    /\ dose_logs[1].scheduled_time = dose_logs[2].scheduled_time
    /\ \E t, u \in Tabs :
           /\ Len(upcomingDoses[t]) = 1
           /\ Len(upcomingDoses[u]) = 1
           /\ upcomingDoses[t][1].doseLog.id = 1
           /\ upcomingDoses[u][1].doseLog.id = 2

\* C4: a row whose status is taken or skipped keeps its status and its taken_at in
\* every step.
C4_TerminalStatusIsFinal ==
    [][\A i \in DOMAIN dose_logs :
          dose_logs[i].status \in {"taken", "skipped"}
          => /\ dose_logs'[i].status = dose_logs[i].status
             /\ dose_logs'[i].taken_at = dose_logs[i].taken_at
      ]_vars

\* C5: a pending row changes only to taken or skipped; when it changes to taken its
\* taken_at is the time of the action, its other fields and all other rows are as
\* before, no row is added, the tab that acted showed the row as pending, and a new
\* materialization pass starts.
C5_MarkTakenStampsAndReloads ==
    [][\A i \in DOMAIN dose_logs :
          (dose_logs[i].status = "pending" /\ dose_logs'[i] # dose_logs[i])
          => /\ dose_logs'[i].status \in {"taken", "skipped"}
             /\ dose_logs'[i].status = "taken"
                => /\ dose_logs' = [dose_logs EXCEPT ![i] =
                                       [@ EXCEPT !.status = "taken", !.taken_at = now]]
                   /\ \E p \in Passes :
                          /\ pass[p].pc = "idle"
                          /\ pass'[p].pc = "list"
                          /\ \E k \in DOMAIN upcomingDoses[pass'[p].tab] :
                                 /\ upcomingDoses[pass'[p].tab][k].doseLog.id = dose_logs[i].id
                                 /\ upcomingDoses[pass'[p].tab][k].doseLog.status = "pending"
      ]_vars

\* One of two rows has just been marked taken at the present instant, the other is
\* still pending, and the pass the action started is in flight.
C5_Witness ==
    /\ Len(dose_logs) = 2
    /\ \E i, j \in DOMAIN dose_logs :
           /\ dose_logs[i].status = "taken"
           /\ dose_logs[i].taken_at = now
           /\ dose_logs[j].status = "pending"
           /\ dose_logs[j].taken_at = NULL
    /\ \E p \in Passes : pass[p].pc = "list"

\* C6: every row, every shown dose and every dose a pass is working on falls on a
\* weekday that its schedule lists: a schedule yields nothing on other weekdays.
C6_OtherWeekdaysYieldNothing ==
    /\ \A r \in Range(dose_logs) :
           \A s \in Range(schedules) :
               s.id = r.schedule_id => GetDay(r.scheduled_time) \in s.days_of_week
    /\ \A t \in Tabs : \A d \in Range(upcomingDoses[t]) :
           GetDay(d.scheduledTime) \in d.schedule.days_of_week
    /\ \A p \in Passes :
           /\ \A item \in Range(pass[p].todo) :
                  GetDay(pass[p].now) \in item.schedule.days_of_week
           /\ \A d \in Range(pass[p].doses) :
                  GetDay(d.scheduledTime) \in d.schedule.days_of_week

\* On a Saturday a pass has ended and shows Saturday's dose, and the Monday-to-Friday
\* schedule, whose time today is within the hour and which has Friday's row, has no
\* row for today.
C6_Witness ==
    /\ GetDay(now) = 6
    /\ \E s \in Range(schedules) :
           /\ s.active
           /\ GetDay(now) \notin s.days_of_week
           /\ s.days_of_week # {}
           /\ WithinTheHour(ScheduledTime(now, s.time), now)
           /\ \E r \in Range(dose_logs) : r.schedule_id = s.id
           /\ \A r \in Range(dose_logs) :
                  r.schedule_id = s.id => StartOfDay(r.scheduled_time) # StartOfDay(now)
    /\ \E t \in Tabs :
           /\ upcomingDoses[t] # <<>>
           /\ \A d \in Range(upcomingDoses[t]) :
                  StartOfDay(d.scheduledTime) = StartOfDay(now)

\* C7: a pass whose now is one hour or more before an occurrence stores nothing for
\* it and lists it only with a row that exists; an insert is only asked for within
\* the hour; and the lookup of a pass within the hour that finds no row asks for
\* the insert.
C7_NothingBeforeTheHour ==
    [][\A p \in Passes :
          /\ (PassStep(p, "lookup") /\ HeadTime(p) - pass[p].now >= ImminentMs)
             => /\ dose_logs' = dose_logs
                /\ pass'[p].pc # "insert"
                /\ \A d \in Range(OutputAfter(p)) :
                       (d.schedule.id = HeadSchedule(p).id /\ d.scheduledTime = HeadTime(p))
                       => d.doseLog \in Range(dose_logs)
          /\ PassStep(p, "insert") => HeadTime(p) - pass[p].now < ImminentMs
          /\ ( /\ PassStep(p, "lookup")
               /\ HeadTime(p) - pass[p].now < ImminentMs
               /\ RowsIn(dose_logs, HeadSchedule(p).id, HeadTime(p)) = {} )
             => pass'[p].pc = "insert"
      ]_vars

\* Exactly one hour before the dose a pass has ended: no row, nothing shown.
C7_Witness ==
    /\ \E s \in DueSchedules("pat1", now) : ScheduledTime(now, s.time) - now = ImminentMs
    /\ dose_logs = <<>>
    /\ \E t \in Tabs : loading[t] = FALSE /\ upcomingDoses[t] = <<>>
    /\ \A p \in Passes : pass[p].pc = "idle"

\* C8: once a row of an occurrence has been marked taken, the lookup of every pass
\* that started later finds it: the pass asks for no insert and lists the occurrence
\* once, with status taken and the taken_at of the marking.
C8_TakenStaysTaken ==
    [][\A p \in Passes :
          PassStep(p, "lookup")
          => LET marked == {i \in RowsIn(dose_logs, HeadSchedule(p).id, HeadTime(p)) :
                               /\ dose_logs[i].taken_at # NULL
                               /\ dose_logs[i].taken_at < pass[p].now}
                 listed == {k \in DOMAIN OutputAfter(p) :
                               /\ OutputAfter(p)[k].schedule.id = HeadSchedule(p).id
                               /\ OutputAfter(p)[k].scheduledTime = HeadTime(p)}
             IN  marked # {}
                 => /\ pass'[p].pc # "insert"
                    /\ dose_logs' = dose_logs
                    /\ Cardinality(listed) = 1
                    /\ \A k \in listed :
                           /\ OutputAfter(p)[k].doseLog.status = "taken"
                           /\ \E i \in marked :
                                  OutputAfter(p)[k].doseLog.taken_at = dose_logs[i].taken_at
      ]_vars

C10_PassOnlyInserts ==
    [][(\E p \in Passes : pass[p].pc \in {"list", "lookup", "insert"} /\ pass'[p] # pass[p])
       => /\ Len(dose_logs') >= Len(dose_logs)
          /\ \A i \in DOMAIN dose_logs : dose_logs'[i] = dose_logs[i]
          /\ UNCHANGED tables
      ]_vars

\* A pass that raced has added a second row beside a row already marked taken, which
\* is as the marking left it, and both tabs show what their passes found.
C10_Witness ==
    /\ Len(dose_logs) = 2
    /\ dose_logs[1].status = "taken"
    /\ dose_logs[1].taken_at # NULL
    /\ dose_logs[2].status = "pending"
    /\ \E t \in Tabs : \E d \in Range(upcomingDoses[t]) : d.doseLog = dose_logs[2]
    /\ \A p \in Passes : pass[p].pc = "idle"

\* C11: when passes run one after the other and any of their persistence calls may
\* fail, no step of a pass raises the number of rows of an occurrence above one: a
\* pass inserts only for an occurrence that has no row yet.
C11_RetryIsSafe ==
    [][\A p \in Passes :
          PassStep(p, "insert")
          => /\ RowsIn(dose_logs, HeadSchedule(p).id, HeadTime(p)) = {}
             /\ Cardinality(RowsIn(dose_logs', HeadSchedule(p).id, HeadTime(p))) <= 1
      ]_vars

\* C19: the list a pass hands to its tab is sorted ascending by scheduled time, has
\* min(5, n) entries for the n occurrences the pass computed, has at most one entry
\* per schedule, and holds the earliest of the computed occurrences: every computed
\* occurrence left out is no earlier than every entry.
C19_ExposedListIsNearestFive ==
    [][\A p \in Passes :
          (pass[p].pc = "lookup" /\ pass'[p].pc = "idle")
          => LET out == upcomingDoses'[pass[p].tab]
                 Key(d) == <<d.schedule.id, d.scheduledTime>>
                 last == IF RowsIn(dose_logs, HeadSchedule(p).id, HeadTime(p)) = {}
                         THEN {}
                         ELSE {<<HeadSchedule(p).id, HeadTime(p)>>}
                 computed == {Key(d) : d \in Range(pass[p].doses)} \cup last
                 n == Cardinality(computed)
             IN  /\ \A i, j \in DOMAIN out :
                        i < j => out[i].scheduledTime <= out[j].scheduledTime
                 /\ Len(out) = IF n < 5 THEN n ELSE 5
                 /\ \A i, j \in DOMAIN out :
                        out[i].schedule.id = out[j].schedule.id => i = j
                 /\ \A i \in DOMAIN out : Key(out[i]) \in computed
                 /\ \A k \in computed :
                        (\A i \in DOMAIN out : Key(out[i]) # k)
                        => \A i \in DOMAIN out : out[i].scheduledTime <= k[2]
      ]_vars

\* A pass over seven doses, met in an order that is not that of their times, has
\* handed five of them to its tab.
C19_Witness ==
    /\ Len(dose_logs) = 7
    /\ \E t \in Tabs :
           /\ Len(upcomingDoses[t]) = 5
           /\ \E i, j \in DOMAIN dose_logs :
                  /\ i < j
                  /\ dose_logs[i].scheduled_time > dose_logs[j].scheduled_time
                  /\ \E a, b \in DOMAIN upcomingDoses[t] :
                         /\ a < b
                         /\ upcomingDoses[t][a].doseLog = dose_logs[j]
                         /\ upcomingDoses[t][b].doseLog = dose_logs[i]

\* C20: a dose-log row has a taken timestamp exactly when its status is taken.
C20_TakenAtIffTaken ==
    \A r \in Range(dose_logs) : (r.taken_at # NULL) <=> (r.status = "taken")

\* C12: a dose-log row is added only by a request of the patient who owns the
\* row's schedule; an insert requested by any other user is refused and leaves
\* the table as it was.
C12_OnlyOwnerInserts ==
    [][/\ Len(dose_logs') > Len(dose_logs) =>
            response'.uid = PatientOfDoseLog(dose_logs'[Len(dose_logs')])
       /\ (response' # response /\ response'.op = "insert dose_logs"
                /\ dose_logs' = dose_logs) => response'.error # "none"]_vars

\* C13: an update of dose-log rows requested by a user who owns none of them
\* leaves every row as it was and is answered with an error.
C13_ForeignUpdateIsAnError ==
    [][(/\ response' # response
        /\ response'.op = "update dose_logs"
        /\ \A r \in Range(dose_logs) : PatientOfDoseLog(r) # response'.uid)
       => (dose_logs' = dose_logs /\ response'.error # "none")]_vars

\* C17: in a step that turns a dose-log row to missed, an alert about that row is
\* created for each of the patient's connections that has notify_missed_doses
\* on, and for no connection that has it off.
C17_MissedRaisesAlerts ==
    [][\A j \in DOMAIN dose_logs :
          (/\ j \in DOMAIN dose_logs'
           /\ dose_logs[j].status # "missed"
           /\ dose_logs'[j].status = "missed")
          => \A c \in Range(caregiver_connections) :
                c.patient_id = PatientOfDoseLog(dose_logs[j]) =>
                    (c.notify_missed_doses <=>
                        \E a \in Range(alerts') :
                            /\ a \notin Range(alerts)
                            /\ a.dose_log_id = dose_logs[j].id
                            /\ a.caregiver_id = c.caregiver_id)]_vars

\* A step in which tab t's Add Caregiver form was submitted
Submitted(t) == addCaregiver[t].open /\ addCaregiver'[t] # addCaregiver[t]

\* The caregiver-role accounts that have signed up with the address typed in tab t
AccountsTyped(t) ==
    {p \in Range(Profiles) :
        /\ p.role = "caregiver"
        /\ p.email.name = addCaregiver[t].email.name
        /\ ~p.email.caps /\ ~p.email.blanks}

LinkedIn(connections, patient, caregiver) ==
    \E c \in Range(connections) : c.patient_id = patient /\ c.caregiver_id = caregiver

\* C14: the table never holds two rows for one (patient, caregiver) pair;
\* submitting the address of a caregiver who is already connected leaves the
\* table as it was and shows 'This caregiver is already connected.'; a row's
\* notification flag changes, and a row disappears, only by an act of its patient.
C14_OneRowPerPair ==
    [][/\ \A i, j \in DOMAIN caregiver_connections' :
            (/\ caregiver_connections'[i].patient_id = caregiver_connections'[j].patient_id
             /\ caregiver_connections'[i].caregiver_id = caregiver_connections'[j].caregiver_id)
            => i = j
       /\ \A t \in Tabs : \A p \in AccountsTyped(t) :
            (Submitted(t) /\ LinkedIn(caregiver_connections, TabUser[t], p.id))
            => /\ caregiver_connections' = caregiver_connections
               /\ addCaregiver'[t].error = "This caregiver is already connected."
       /\ \A c \in Range(caregiver_connections) :
            c \notin Range(caregiver_connections')
            => IF response' # response
               THEN c.patient_id = response'.uid
               ELSE c.patient_id \in {response.uid} \cup Range(TabUser)]_vars

\* C15: submitting the address of a caregiver-role account that is not yet
\* connected appends the connection row, notify_missed_doses on, and reloads the
\* tab's caregiver list; submitting an address no such account has creates no row
\* and shows 'Caregiver account not found'.
C15_AddCaregiverConnects ==
    [][\A t \in Tabs :
          (Submitted(t) /\ addCaregiver[t].email.name # "")
          => /\ \A p \in AccountsTyped(t) :
                  ~LinkedIn(caregiver_connections, TabUser[t], p.id)
                  => /\ Len(caregiver_connections') = Len(caregiver_connections) + 1
                     /\ LET row == caregiver_connections'[Len(caregiver_connections')]
                        IN  /\ row.patient_id = TabUser[t]
                            /\ row.caregiver_id = p.id
                            /\ row.notify_missed_doses
                     /\ caregivers'[t] = CaregiversOf(TabUser[t], caregiver_connections')
             /\ AccountsTyped(t) = {}
                  => /\ caregiver_connections' = caregiver_connections
                     /\ addCaregiver'[t].error =
                            "Caregiver account not found. Ask them to sign up first."]_vars

CaregiverWrites ==
    {"update medications", "delete medications", "update schedules", "delete schedules",
     "update dose_logs", "delete dose_logs"}

\* C16: a caregiver reads all of a patient's medication, schedule and dose-log
\* rows while a connection row links the two and none of them while no such row
\* exists; no update or delete requested by a caregiver changes any of these rows.
C16_CaregiverReadsWhileConnected ==
    [][\A cg \in Caregivers :
          /\ \A pid \in {"pat1", "pat2"} :
                LET meds == {m \in Range(medications) : m.patient_id = pid}
                    scheds == {s \in Range(schedules) : \E m \in meds : m.id = s.medication_id}
                    logs == {r \in Range(dose_logs) : \E s \in scheds : s.id = r.schedule_id}
                IN  IF LinkedIn(caregiver_connections, pid, cg)
                    THEN /\ meds \subseteq ReadableMedications(cg)
                         /\ scheds \subseteq ReadableSchedules(cg)
                         /\ logs \subseteq ReadableDoseLogs(cg)
                    ELSE /\ meds \cap ReadableMedications(cg) = {}
                         /\ scheds \cap ReadableSchedules(cg) = {}
                         /\ logs \cap ReadableDoseLogs(cg) = {}
          /\ (response'.uid = cg /\ response'.op \in CaregiverWrites)
                => UNCHANGED <<medications, schedules, dose_logs>>]_vars

\* cg1, connected to pat2 after its connection to pat1 was removed, has tried to
\* update a dose log while the table holds a pending row of each patient.
C16_Witness ==
    /\ ~LinkedIn(caregiver_connections, "pat1", "cg1")
    /\ \E c \in Range(caregiver_connections) :
            c.patient_id = "pat2" /\ c.caregiver_id = "cg1" /\ c.id = 2
    /\ \E r \in Range(dose_logs) : r.schedule_id = "sch1" /\ r.status = "pending"
    /\ \E r \in Range(dose_logs) : r.schedule_id = "sch6" /\ r.status = "pending"
    /\ response.uid = "cg1" /\ response.op = "update dose_logs" /\ response.count = 0

\* C18: the table never holds two rows for one (user, article) pair, and a step
\* that marks an article read again (the read_at of its row changes) adds no row
\* and leaves the row's bookmarked flag as it was.
C18_ProgressUpsertIsIdempotent ==
    [][/\ \A i, j \in DOMAIN user_article_progress' :
            (/\ user_article_progress'[i].user_id = user_article_progress'[j].user_id
             /\ user_article_progress'[i].article_id = user_article_progress'[j].article_id)
            => i = j
       /\ \A j \in DOMAIN user_article_progress :
            /\ j \in DOMAIN user_article_progress'
            /\ user_article_progress'[j].user_id = user_article_progress[j].user_id
            /\ user_article_progress'[j].article_id = user_article_progress[j].article_id
            /\ user_article_progress'[j].read_at # user_article_progress[j].read_at
                 => /\ Len(user_article_progress') = Len(user_article_progress)
                    /\ user_article_progress'[j].bookmarked
                          = user_article_progress[j].bookmarked]_vars

\* The row stored first was read again after the second row was stored, and is
\* bookmarked.
C18_Witness ==
    /\ Len(user_article_progress) = 2
    /\ user_article_progress[1].read_at > user_article_progress[2].read_at
    /\ user_article_progress[1].bookmarked

\* The schedule is active and so is its medication
ActiveNow(schedule_id) ==
    \E s \in Range(schedules) : \E m \in Range(medications) :
        s.id = schedule_id /\ s.active /\ m.id = s.medication_id /\ m.active

\* C21: a pass stores a row only for an active schedule of an active medication,
\* and the list it exposes holds occurrences of such schedules only, also when a
\* row of an inactive schedule's occurrence of today exists.
C21_OnlyActiveSchedules ==
    [][\A p \in Passes :
          /\ (PassStep(p, "insert") /\ Len(dose_logs') > Len(dose_logs))
                => ActiveNow(dose_logs'[Len(dose_logs')].schedule_id)
          /\ (pass[p].pc # "idle" /\ pass'[p].pc = "idle")
                => \A d \in Range(upcomingDoses'[pass[p].tab]) : ActiveNow(d.schedule.id)]_vars

\* sch1 was switched off after its row of today was stored, and a later pass of
\* tab A, which listed sch1 as inactive, has exposed nothing.
C21_Witness ==
    /\ NoPassInFlight
    /\ \E r \in Range(dose_logs) :
            r.schedule_id = "sch1" /\ r.scheduled_time = ScheduledTime(now, <<8, 0, 0>>)
    /\ \E m \in Range(medicationsState["tabA"]) : \E s \in Range(m.schedules) :
            s.id = "sch1" /\ ~s.active
    /\ ~ActiveNow("sch1")
    /\ upcomingDoses["tabA"] = <<>>

\* C22: when the lookup finds no row for an occurrence whose time today is
\* earlier than the pass's now, by however much, the pass goes on to insert, and
\* the insert stores the pending row of that occurrence.
C22_PastOccurrencesAreMaterialized ==
    [][\A p \in Passes :
          /\ (/\ PassStep(p, "lookup")
              /\ HeadTime(p) < pass[p].now
              /\ RowsIn(dose_logs, HeadSchedule(p).id, HeadTime(p)) = {})
                => pass'[p].pc = "insert"
          /\ (PassStep(p, "insert") /\ HeadTime(p) < pass[p].now)
                => /\ Len(dose_logs') = Len(dose_logs) + 1
                   /\ LET row == dose_logs'[Len(dose_logs')]
                      IN  /\ row.schedule_id = HeadSchedule(p).id
                          /\ row.scheduled_time = HeadTime(p)
                          /\ row.status = "pending"]_vars

\* At 20:00 or later a tab shows the pending row of the 08:00 dose, stored by a
\* pass of that same hour.
C22_Witness ==
    /\ now % DayMs >= 20 * HourMs
    /\ \E t \in Tabs : \E d \in Range(upcomingDoses[t]) :
            /\ d.scheduledTime = ScheduledTime(now, <<8, 0, 0>>)
            /\ d.doseLog \in Range(dose_logs)
            /\ d.doseLog.status = "pending"

\* C30: a step that stores a medication stores a schedule of it too, so that no
\* medication is left behind without a schedule.
C30_AddMedicationIsAllOrNothing ==
    [][Len(medications') > Len(medications) =>
          \E s \in Range(schedules') :
              /\ s \notin Range(schedules)
              /\ s.medication_id = medications'[Len(medications')].id]_vars

\* C23: no step of the dashboards turns a dose-log row to missed or stores an
\* alert: a row is stored as pending and becomes taken or skipped only, the
\* missed count the caregiver dashboard shows for today is 0 for every patient,
\* and its alert list holds nothing but alerts written from outside.
C23_NothingIsMarkedMissed ==
    [][/\ \A j \in DOMAIN dose_logs' :
            IF j \in DOMAIN dose_logs
            THEN /\ dose_logs'[j].status = "missed" => dose_logs[j].status = "missed"
                 /\ dose_logs'[j].status # dose_logs[j].status
                        => dose_logs'[j].status \in {"taken", "skipped"}
            ELSE dose_logs'[j].status = "pending"
       /\ Len(alerts') = Len(alerts)
       /\ \A j \in DOMAIN alerts : alerts'[j].id = alerts[j].id
       /\ \A cg \in Caregivers :
            /\ \A i \in DOMAIN patients'[cg] : patients'[cg][i].missedDoses = 0
            /\ \A i \in DOMAIN alertsState'[cg] : alertsState'[cg][i].id = 1]_vars

\* pat1 has added a medication and skipped a dose, the caregiver has read the
\* alert, and the caregiver dashboard shows pat1.
C23_Witness ==
    /\ Len(medications) = MaxMedications
    /\ \E r \in Range(dose_logs) : r.status = "skipped"
    /\ alerts[1].read_at # NULL
    /\ \E i \in DOMAIN patients["cg1"] : patients["cg1"][i].id = "pat1"

\* C24: when the medication listing of a pass fails, the step stores no dose-log
\* row, leaves the medication list and the exposed list of every tab as they
\* were, sets no error message, clears the tab's loading flag and ends the pass,
\* so that the next timer tick finds a free slot to start a pass in.
C24_FailedListingLeavesStaleView ==
    [][\A p \in Passes :
          (PassStep(p, "list") /\ ~Reachable)
          => /\ dose_logs' = dose_logs
             /\ medicationsState' = medicationsState
             /\ upcomingDoses' = upcomingDoses
             /\ caregiverError' = caregiverError
             /\ loading'[pass[p].tab] = FALSE
             /\ pass'[p] = IdlePass
             /\ \E q \in Passes : pass'[q].pc = "idle"]_vars

\* Tab B's first listing failed (its loading flag is cleared and it has no
\* medication list) while tab A still shows the dose it had exposed before.
C24_Witness ==
    /\ ~Reachable
    /\ ~loading["tabB"] /\ medicationsState["tabB"] = <<>>
    /\ upcomingDoses["tabA"] # <<>>
    /\ NoPassInFlight

\* C25: when the lookup of a pass finds two or more rows for its occurrence, the
\* pass does not go on to insert, and it exposes the occurrence with one of the
\* rows that exist.
C25_DuplicatesStopGrowing ==
    [][\A p \in Passes :
          (/\ PassStep(p, "lookup")
           /\ Cardinality(RowsIn(dose_logs, HeadSchedule(p).id, HeadTime(p))) >= 2)
          => /\ pass'[p].pc # "insert"
             /\ \E d \in Range(OutputAfter(p)) :
                    /\ d.schedule.id = HeadSchedule(p).id
                    /\ d.doseLog \in Range(dose_logs)]_vars

\* C26: a tab never has two passes in flight, and no occurrence has two rows.
C26_OnePassAtATime ==
    /\ \A t \in Tabs : Cardinality({p \in Passes : pass[p].pc # "idle" /\ pass[p].tab = t}) <= 1
    /\ \A i, j \in DOMAIN dose_logs :
          (/\ dose_logs[i].schedule_id = dose_logs[j].schedule_id
           /\ dose_logs[i].scheduled_time = dose_logs[j].scheduled_time) => i = j

\* An entry of a tab's list that has no stored row behind it.
Unbacked(t, i) == i \in DOMAIN upcomingDoses[t] /\ upcomingDoses[t][i].doseLog = NoLog

\* C27: an occurrence whose insert stored no row is still put in the list, without
\* a row, shown as pending with its buttons; pressing Taken or Skip on such an entry
\* writes nothing and starts no reload.
C27_UnbackedEntryIsInert ==
    [][/\ \A p \in Passes :
            (PassStep(p, "insert") /\ dose_logs' = dose_logs) =>
                \E i \in DOMAIN OutputAfter(p) :
                    /\ OutputAfter(p)[i].schedule = HeadSchedule(p)
                    /\ OutputAfter(p)[i].scheduledTime = HeadTime(p)
                    /\ OutputAfter(p)[i].doseLog = NoLog
                    /\ DisplayStatus(OutputAfter(p)[i]) = "pending"
       /\ \A t \in Tabs, i \in 1..UpcomingLimit :
            Unbacked(t, i) =>
                /\ ButtonsShown(t, i)
                /\ \A ok \in BOOLEAN :
                      (MarkDoseTaken(t, i, ok) \/ MarkDoseSkipped(t, i, ok)) =>
                          UNCHANGED <<dose_logs, pass>>]_vars

\* A tab at rest shows an entry without a row, its buttons ready to be pressed.
C27_Witness == NoPassInFlight /\ \E t \in Tabs, i \in 1..UpcomingLimit : Unbacked(t, i)

\* The rows of today scheduled earlier than row r.
EarlierRows(r) == {q \in Range(dose_logs) : q.scheduled_time < r.scheduled_time}

\* Row r is an entry of tab t's list.
Exposed(t, r) == \E i \in DOMAIN upcomingDoses[t] : upcomingDoses[t][i].doseLog = r

\* C28: the cap of five keeps the five earliest occurrences by scheduled time,
\* whatever their status: a row is in a loaded list exactly when fewer than five
\* rows are scheduled before it.
C28_CapIsByTimeOnly ==
    \A t \in Tabs :
        (~loading[t] /\ NoPassInFlight) =>
            \A r \in Range(dose_logs) :
                Exposed(t, r) <=> Cardinality(EarlierRows(r)) < UpcomingLimit

\* A loaded list of five answered doses while a pending row of today is left out.
C28_Witness ==
    \E t \in Tabs :
        /\ ~loading[t] /\ NoPassInFlight
        /\ Len(upcomingDoses[t]) = UpcomingLimit
        /\ \A i \in DOMAIN upcomingDoses[t] : DisplayStatus(upcomingDoses[t][i]) \in {"taken", "skipped"}
        /\ \E r \in Range(dose_logs) : r.status = "pending" /\ ~Exposed(t, r)

\* Tab t displays article a as read.
DisplayedRead(view, a) == \E article \in view : article.id = a /\ article.isRead

\* C29: an article is displayed as read only once markAsRead has succeeded for it:
\* a step in which a tab starts to display as read an article that had no progress
\* row is that tab's successful markAsRead of the article, never a bookmark toggle.
C29_ReadOnlyAfterOpening ==
    [][\A t \in Tabs, a \in Articles :
          (/\ ProgressRows(TabUser[t], a) = {}
           /\ ~DisplayedRead(articles[t], a)
           /\ DisplayedRead(articles'[t], a)) => MarkAsRead(t, a, TRUE)]_vars

====
